---- MODULE Spec2Model ----
(***************************************************************************)
(* Grammatical Evolution (gers-dev): the genotype -> phenotype derivation  *)
(* mappers, the boolean expression evaluator, the evolutionary operators   *)
(* and the generational step of the population manager.                    *)
(*                                                                         *)
(* The module holds several specifications over one set of variables; each *)
(* specification drives one part of the program and leaves the variables   *)
(* of the other parts at Idle.                                             *)
(*   SpecMap     the three stack-based map_genome_to_phenotype loops       *)
(*   SpecBool    evaluate_expression of the parity example                 *)
(*   SpecOps     single calls of the evolutionary operators                *)
(*   SpecTournament  single calls of the fitness-based tournament of the   *)
(*               vladislavleva4 example                                    *)
(*   SpecEvolve  evolve_population of the library, generation after        *)
(*               generation, on a seeded random source                     *)
(*   SpecMain    the generation loops of main of the parity and the        *)
(*               regression example                                        *)
(*   SpecRun     run_algorithm of the vladislavleva4 example               *)
(*   SpecCalls   single calls of parse_expression, map_genome_to_expression*)
(*               and the evaluate_fitness of each example                  *)
(*   SpecPrecondition  single calls of the library functions on arguments  *)
(*               that may break a precondition                             *)
(*   SpecGenome  a genome under sequences of genome.rs and operator calls  *)
(***************************************************************************)
EXTENDS Integers, Sequences, FiniteSets, TLC

VARIABLES
    \* map_genome_to_phenotype (src/src/grammar.rs, examples/parity, examples/regression)
    mapper,           \* which copy of the function runs: "library", "parity", "regression"
    genome,           \* the argument
    symbols,          \* the symbol stack (top = last element, as Vec::push / Vec::pop)
    genome_index,     \* the codon cursor
    output,           \* the tokens appended to the output string so far
    iteration_count,  \* loop iterations whose body ran to its end
    mpc,              \* "running", "done" (stack empty), "capped" (break at the step cap)
    \* evaluate_expression (examples/parity)
    tokens,           \* expression.split_whitespace()
    assignment,       \* the arguments a, b, c
    postfix,          \* infix_to_postfix(&tokens)
    evaluated,        \* evaluate_postfix(&postfix, a, b, c): an Option<bool>
    result,           \* the returned bool
    bpc,              \* "start", "done"
    \* one call of an evolutionary operator
    op,               \* the function called, "none" before the call
    args,             \* its arguments
    draws,            \* what the random source gave it
    ret,              \* what it returned (mutate: the genome after the call)
    \* evolve_population (src/src/population_mgmt.rs) and its caller
    population,       \* the caller's population, the argument of the call
    fitness,          \* the fitness function passed in
    rng,              \* the thread's random source: a stream [tape, pos]
    sorted_population,
    new_population,
    tournaments,      \* the two tournament_selection calls of the last loop pass
    epc,              \* "idle" between calls, "breeding" inside the while loop
    generation,       \* calls completed
    \* the generation loops of the examples (main, run_algorithm); they also use
    \* population, new_population, rng, generation and epc
    program,          \* "parity", "regression" or "vladislavleva4"
    best_genome,      \* Option<Genome>: the recorded all-time best
    best_fitness,     \* the recorded best fitness
    current_best,     \* the best of the generation just evaluated
    run_fitness_values \* run_algorithm: its vector fitness_values

mapVars == <<mapper, genome, symbols, genome_index, output, iteration_count, mpc>>

boolVars == <<tokens, assignment, postfix, evaluated, result, bpc>>

opVars == <<op, args, draws, ret>>

evolveVars == <<population, fitness, rng, sorted_population, new_population,
                tournaments, epc, generation>>

runVars == <<program, best_genome, best_fitness, current_best, run_fitness_values>>

vars == <<mapVars, boolVars, opVars, evolveVars, runVars>>

Idle == "idle"

MapIdle ==
    /\ mapper = Idle /\ genome = Idle /\ symbols = Idle /\ genome_index = Idle
    /\ output = Idle /\ iteration_count = Idle /\ mpc = Idle

BoolIdle ==
    /\ tokens = Idle /\ assignment = Idle /\ postfix = Idle
    /\ evaluated = Idle /\ result = Idle /\ bpc = Idle

OpIdle == op = Idle /\ args = Idle /\ draws = Idle /\ ret = Idle

EvolveIdle ==
    /\ population = Idle /\ fitness = Idle /\ rng = Idle /\ sorted_population = Idle
    /\ new_population = Idle /\ tournaments = Idle /\ epc = Idle /\ generation = Idle

RunIdle ==
    /\ program = Idle /\ best_genome = Idle /\ best_fitness = Idle
    /\ current_best = Idle /\ run_fitness_values = Idle

-----------------------------------------------------------------------------
(* Bounds of the model *)

MaxGenomeLen == 3
MaxModelSteps == 1002

(* Program constants *)

MAX_ITERATIONS == 1000
MAX_GENE_VALUE == 255

-----------------------------------------------------------------------------
(* Helpers on sequences *)

Reverse(s) == [i \in 1..Len(s) |-> s[Len(s) + 1 - i]]

SeqsUpTo(S, n) == UNION {[1..k -> S] : k \in 1..n}

Min(a, b) == IF a < b THEN a ELSE b

\* String::push_str(tok); String::push(' ') per token, then trim(): the tokens
\* separated by single spaces.
RECURSIVE TrimmedString(_)
TrimmedString(toks) ==
    IF toks = <<>> THEN ""
    ELSE IF Len(toks) = 1 THEN toks[1]
    ELSE toks[1] \o " " \o TrimmedString(Tail(toks))

-----------------------------------------------------------------------------
(* Grammars: non-terminal -> productions; a production string is held as   *)
(* the symbols split_whitespace() yields for it.                           *)

BOOL_GRAMMAR ==
    [S |-> << <<"E">> >>,
     E |-> << <<"E", "OR", "T">>, <<"T">> >>,
     T |-> << <<"T", "AND", "F">>, <<"F">> >>,
     F |-> << <<"NOT", "F">>, <<"A">>, <<"B">>, <<"C">> >>]

ARITH_GRAMMAR ==
    [S |-> << <<"E">> >>,
     E |-> << <<"E", "+", "T">>, <<"E", "-", "T">>, <<"T">> >>,
     T |-> << <<"T", "*", "F">>, <<"T", "/", "F">>, <<"F">> >>,
     F |-> << <<"x">>, <<"y">>, <<"(", "E", ")">>, <<"1.0">>, <<"2.0">>, <<"3.0">> >>]

Mappers == {"library", "parity", "regression"}

GRAMMAR(m) == IF m = "regression" THEN ARITH_GRAMMAR ELSE BOOL_GRAMMAR

\* Only the regression copy counts iterations and breaks at MAX_ITERATIONS.
HasStepCap(m) == m = "regression"

\* A slip: once the codons are used up the last one is reused, instead of wrapping.
ChooseProductionNoWrap(productions, g, idx) ==
    productions[(g[Min(idx, Len(g) - 1) + 1] % Len(productions)) + 1]

\* productions[gene as usize % productions.len()] at genome[genome_index % genome.len()]
ChooseProduction(productions, g, idx) ==
    productions[(g[(idx % Len(g)) + 1] % Len(productions)) + 1]

\* One pass of `while let Some(top) = symbols.pop() { ... }` on the loop state
\* st = [symbols, genome_index, output, iteration_count, pc].
MapIteration(m, g, st) ==
    IF st.symbols = <<>> THEN [st EXCEPT !.pc = "done"]
    ELSE
        LET top  == st.symbols[Len(st.symbols)]
            rest == SubSeq(st.symbols, 1, Len(st.symbols) - 1)
        IN  IF HasStepCap(m) /\ st.iteration_count > MAX_ITERATIONS
              THEN [st EXCEPT !.symbols = rest, !.pc = "capped"]
            ELSE IF top \in DOMAIN GRAMMAR(m)
              THEN [st EXCEPT
                      !.symbols = rest \o Reverse(ChooseProduction(GRAMMAR(m)[top], g, st.genome_index)),
                      !.genome_index = st.genome_index + 1,
                      !.iteration_count = st.iteration_count + 1]
            ELSE [st EXCEPT
                      !.symbols = rest,
                      !.output = Append(st.output, top),
                      !.iteration_count = st.iteration_count + 1]

MapStart == [symbols |-> <<"S">>, genome_index |-> 0, output |-> <<>>,
             iteration_count |-> 0, pc |-> "running"]

\* n passes of the loop from st, or fewer if it ends before; the run is split
\* in halves to keep the evaluation shallow.
RECURSIVE MapPasses(_, _, _, _)
MapPasses(m, g, st, n) ==
    IF n = 0 \/ st.pc # "running" THEN st
    ELSE IF n = 1 THEN MapIteration(m, g, st)
    ELSE MapPasses(m, g, MapPasses(m, g, st, n \div 2), n - (n \div 2))

\* Whether the loop without a cap on its passes ever ends, and after how many
\* passes. A popped symbol and all that its production pushes are consumed
\* before anything below them on the stack is looked at, so what the loop
\* does with a non-terminal depends only on the non-terminal and on
\* genome_index % genome.len() when it is popped: the loop never ends exactly
\* when a non-terminal comes up again, at the same remainder, among the
\* symbols its own production led to. walk = [genome_index, passes, ends];
\* open holds the non-terminals being consumed, with their remainders.
RECURSIVE ConsumeSymbols(_, _, _, _, _)
ConsumeSymbol(m, g, symbol, walk, open) ==
    IF ~walk.ends THEN walk
    ELSE IF symbol \notin DOMAIN GRAMMAR(m) THEN [walk EXCEPT !.passes = @ + 1]
    ELSE IF <<symbol, walk.genome_index % Len(g)>> \in open THEN [walk EXCEPT !.ends = FALSE]
    ELSE ConsumeSymbols(m, g, ChooseProduction(GRAMMAR(m)[symbol], g, walk.genome_index),
                        [walk EXCEPT !.genome_index = @ + 1, !.passes = @ + 1],
                        open \cup {<<symbol, walk.genome_index % Len(g)>>})

ConsumeSymbols(m, g, production, walk, open) ==
    IF production = <<>> THEN walk
    ELSE ConsumeSymbols(m, g, Tail(production),
                        ConsumeSymbol(m, g, production[1], walk, open), open)

\* The passes from the start: those that pop a symbol, and the one that finds
\* the stack empty.
MapWalk(m, g) ==
    ConsumeSymbol(m, g, "S", [genome_index |-> 0, passes |-> 1, ends |-> TRUE], {})

\* The loop state the call ends in; pc stays "running" on a genome for which
\* the loop never ends, and the call then never returns.
MapEnd(m, g) ==
    IF HasStepCap(m) THEN MapPasses(m, g, MapStart, MaxModelSteps)
    ELSE IF MapWalk(m, g).ends THEN MapPasses(m, g, MapStart, MapWalk(m, g).passes)
    ELSE MapStart

map_genome_to_phenotype(m, g) ==
    [pc |-> MapEnd(m, g).pc, phenotype |-> TrimmedString(MapEnd(m, g).output)]

-----------------------------------------------------------------------------
(* SpecMap: one call of map_genome_to_phenotype, pass by pass *)

GeneValues == 0..3 \cup {MAX_GENE_VALUE}

TestGenome == <<0, 1, 2, 3, 4>>

MapGenomes == SeqsUpTo(GeneValues, MaxGenomeLen) \cup {TestGenome}

MapInit ==
    /\ mapper \in Mappers
    /\ genome \in MapGenomes
    /\ symbols = MapStart.symbols
    /\ genome_index = MapStart.genome_index
    /\ output = MapStart.output
    /\ iteration_count = MapStart.iteration_count
    /\ mpc = MapStart.pc
    /\ BoolIdle /\ OpIdle /\ EvolveIdle /\ RunIdle

MapLoopState == [symbols |-> symbols, genome_index |-> genome_index, output |-> output,
                 iteration_count |-> iteration_count, pc |-> mpc]

MapStep ==
    /\ mpc = "running"
    /\ iteration_count < MaxModelSteps
    /\ LET n == MapIteration(mapper, genome, MapLoopState)
       IN  /\ symbols' = n.symbols
           /\ genome_index' = n.genome_index
           /\ output' = n.output
           /\ iteration_count' = n.iteration_count
           /\ mpc' = n.pc
    /\ UNCHANGED <<mapper, genome>>
    /\ UNCHANGED <<boolVars, opVars, evolveVars, runVars>>

MapNext == MapStep

SpecMap == MapInit /\ [][MapNext]_vars

-----------------------------------------------------------------------------
(* Claims on the derivation mappers *)

\* C1: every stack-based map_genome_to_phenotype terminates within the step
\* cap: no call is still looping after more passes than the cap allows (the
\* capped copy runs the body for iteration_count = 0..MAX_ITERATIONS).
C1_TerminatesWithinStepCap ==
    mpc = "running" => iteration_count <= MAX_ITERATIONS + 1

\* The sentential form reached from `form` by n - k further leftmost expansions,
\* the j-th expansion (j = k, k+1, ...) using codon g[j mod len(g)] mod the
\* number of productions of the expanded non-terminal.
RECURSIVE LeftmostDerivation(_, _, _, _, _)
LeftmostDerivation(G, g, form, k, n) ==
    LET nts == {i \in 1..Len(form) : form[i] \in DOMAIN G}
    IN  IF k = n \/ nts = {} THEN form
        ELSE LET i     == CHOOSE j \in nts : \A l \in nts : j <= l
                 prods == G[form[i]]
                 codon == g[(k % Len(g)) + 1]
                 rhs   == prods[(codon % Len(prods)) + 1]
             IN  LeftmostDerivation(G, g,
                     SubSeq(form, 1, i - 1) \o rhs \o SubSeq(form, i + 1, Len(form)),
                     k + 1, n)

\* C2: when the derivation completes, the output is the terminal string of the
\* leftmost derivation from S whose k-th expansion uses production
\* genome[k mod len] mod number_of_productions; genome [0,1,2,3,4] over the
\* boolean grammar yields "NOT NOT A AND B".
C2_LeftmostDerivation ==
    mpc = "done" =>
        LET form == LeftmostDerivation(GRAMMAR(mapper), genome, <<"S">>, 0, genome_index)
        IN  /\ \A i \in 1..Len(form) : form[i] \notin DOMAIN GRAMMAR(mapper)
            /\ output = form
            /\ (genome = TestGenome /\ mapper # "regression")
                  => TrimmedString(output) = "NOT NOT A AND B"

\* The test genome has been mapped by the parity copy, wrapping over its codons.
C2_Witness ==
    /\ mpc = "done"
    /\ mapper = "parity"
    /\ genome = TestGenome
    /\ genome_index > Len(genome)
    /\ TrimmedString(output) = "NOT NOT A AND B"

-----------------------------------------------------------------------------
(* The boolean evaluator of the parity example *)

Top(stack) == stack[Len(stack)]

Pop(stack) == SubSeq(stack, 1, Len(stack) - 1)

Some(v) == [tag |-> "Some", value |-> v]
None    == [tag |-> "None", value |-> FALSE]
Panic   == [tag |-> "Panic", value |-> FALSE]
Pending == [tag |-> "Pending", value |-> FALSE]

\* output.push(stack.pop().unwrap())
EmitTop(st) == [output |-> Append(st.output, Top(st.stack)), stack |-> Pop(st.stack)]

\* A slip: an incoming AND/OR leaves a NOT on the stack.
RECURSIVE PopOperatorsKeepNot(_)
PopOperatorsKeepNot(st) ==
    IF st.stack # <<>> /\ Top(st.stack) \in {"AND", "OR"}
      THEN PopOperatorsKeepNot(EmitTop(st))
      ELSE st

\* "AND" | "OR": while the top of the stack is AND, OR or NOT, move it to the output.
RECURSIVE PopOperators(_)
PopOperators(st) ==
    IF st.stack # <<>> /\ Top(st.stack) \in {"AND", "OR", "NOT"}
      THEN PopOperators(EmitTop(st))
      ELSE st

\* ")": move the stack to the output down to the nearest "(", which is dropped.
RECURSIVE PopToParen(_)
PopToParen(st) ==
    IF st.stack = <<>> THEN st
    ELSE IF Top(st.stack) # "(" THEN PopToParen(EmitTop(st))
    ELSE [st EXCEPT !.stack = Pop(st.stack)]

\* A slip: NOT goes straight to the output, ahead of its operand.
InfixTokenEmitsNot(st, token) ==
    CASE token \in {"A", "B", "C", "NOT"} -> [st EXCEPT !.output = Append(st.output, token)]
      [] token \in {"AND", "OR"}   -> LET p == PopOperators(st)
                                      IN  [p EXCEPT !.stack = Append(p.stack, token)]
      [] token = "("               -> [st EXCEPT !.stack = Append(st.stack, token)]
      [] token = ")"               -> PopToParen(st)
      [] OTHER                     -> st

\* The body of `for &token in tokens` of infix_to_postfix.
InfixToken(st, token) ==
    CASE token \in {"A", "B", "C"} -> [st EXCEPT !.output = Append(st.output, token)]
      [] token \in {"AND", "OR"}   -> LET p == PopOperators(st)
                                      IN  [p EXCEPT !.stack = Append(p.stack, token)]
      [] token \in {"NOT", "("}    -> [st EXCEPT !.stack = Append(st.stack, token)]
      [] token = ")"               -> PopToParen(st)
      [] OTHER                     -> st

RECURSIVE InfixLoop(_, _)
InfixLoop(st, toks) ==
    IF toks = <<>> THEN st ELSE InfixLoop(InfixToken(st, Head(toks)), Tail(toks))

\* while let Some(op) = stack.pop() { output.push(op) }
RECURSIVE DrainStack(_)
DrainStack(st) == IF st.stack = <<>> THEN st.output ELSE DrainStack(EmitTop(st))

infix_to_postfix(toks) == DrainStack(InfixLoop([output |-> <<>>, stack |-> <<>>], toks))

\* A slip: every operator is let through with one operand on the stack.
TooFewOperandsOffByOne(stack, token) == Len(stack) < 1

\* `if stack.len() < 2 { return None; }` of AND / OR, `if stack.is_empty()` of NOT.
TooFewOperands(stack, token) ==
    IF token \in {"AND", "OR"} THEN Len(stack) < 2 ELSE stack = <<>>

\* stack.pop().unwrap() twice, then push: unwrap panics on an empty stack.
\* es = [stack, ret]; ret is "go" while the loop runs, else "None" or "Panic".
ApplyBinary(es, token) ==
    IF Len(es.stack) < 2 THEN [es EXCEPT !.ret = "Panic"]
    ELSE LET right == Top(es.stack)
             left  == Top(Pop(es.stack))
             value == IF token = "AND" THEN left /\ right ELSE left \/ right
         IN  [es EXCEPT !.stack = Append(Pop(Pop(es.stack)), value)]

ApplyNot(es) ==
    IF es.stack = <<>> THEN [es EXCEPT !.ret = "Panic"]
    ELSE [es EXCEPT !.stack = Append(Pop(es.stack), ~Top(es.stack))]

\* The body of `for &token in postfix` of evaluate_postfix.
PostfixToken(es, token, a, b, c) ==
    CASE token = "A" -> [es EXCEPT !.stack = Append(es.stack, a)]
      [] token = "B" -> [es EXCEPT !.stack = Append(es.stack, b)]
      [] token = "C" -> [es EXCEPT !.stack = Append(es.stack, c)]
      [] token \in {"AND", "OR"} ->
            IF TooFewOperands(es.stack, token) THEN [es EXCEPT !.ret = "None"]
            ELSE ApplyBinary(es, token)
      [] token = "NOT" ->
            IF TooFewOperands(es.stack, token) THEN [es EXCEPT !.ret = "None"]
            ELSE ApplyNot(es)
      [] OTHER -> es

RECURSIVE PostfixLoop(_, _, _, _, _)
PostfixLoop(es, toks, a, b, c) ==
    IF toks = <<>> \/ es.ret # "go" THEN es
    ELSE PostfixLoop(PostfixToken(es, Head(toks), a, b, c), Tail(toks), a, b, c)

evaluate_postfix(pf, a, b, c) ==
    LET es == PostfixLoop([stack |-> <<>>, ret |-> "go"], pf, a, b, c)
    IN  CASE es.ret = "Panic" -> Panic
          [] es.ret = "None"  -> None
          [] OTHER -> IF Len(es.stack) = 1 THEN Some(Top(es.stack)) ELSE None

\* match evaluate_postfix(..) { Some(result) => result, None => false }
evaluate_expression(toks, a, b, c) ==
    LET r == evaluate_postfix(infix_to_postfix(toks), a, b, c)
    IN  CASE r.tag = "Some" -> [panicked |-> FALSE, value |-> r.value]
          [] r.tag = "None" -> [panicked |-> FALSE, value |-> FALSE]
          [] OTHER          -> [panicked |-> TRUE, value |-> FALSE]

-----------------------------------------------------------------------------
(* SpecBool: one call of evaluate_expression *)

MaxInfixLen == 7
MaxRawLen == 3

BoolVariables == {"A", "B", "C"}

\* The tokens the two functions know, and one they do not.
BoolAlphabet == BoolVariables \cup {"NOT", "AND", "OR", "(", ")", "X"}

\* The infix expressions of exactly n tokens: factor ((AND | OR) factor)*,
\* factor = variable | NOT factor | ( expression ).
RECURSIVE WellFormedExprs(_), WellFormedFactors(_)
WellFormedFactors(n) ==
    IF n < 1 THEN {}
    ELSE (IF n = 1 THEN {<<v>> : v \in BoolVariables} ELSE {})
         \cup {<<"NOT">> \o f : f \in WellFormedFactors(n - 1)}
         \cup {<<"(">> \o e \o <<")">> : e \in WellFormedExprs(n - 2)}

WellFormedExprs(n) ==
    IF n < 1 THEN {}
    ELSE WellFormedFactors(n)
         \cup UNION {{e \o <<o>> \o f : e \in WellFormedExprs(k),
                                        o \in {"AND", "OR"},
                                         f \in WellFormedFactors(n - 1 - k)} : k \in 1..(n - 2)}

BoolInputs ==
    UNION {WellFormedExprs(n) : n \in 1..MaxInfixLen}
    \cup UNION {[1..n -> BoolAlphabet] : n \in 0..MaxRawLen}

BoolInit ==
    /\ tokens \in BoolInputs
    /\ assignment \in [BoolVariables -> BOOLEAN]
    /\ postfix = <<>>
    /\ evaluated = Pending
    /\ result = [panicked |-> FALSE, value |-> FALSE]
    /\ bpc = "start"
    /\ MapIdle /\ OpIdle /\ EvolveIdle /\ RunIdle

EvaluateExpression ==
    /\ bpc = "start"
    /\ postfix' = infix_to_postfix(tokens)
    /\ evaluated' = evaluate_postfix(postfix', assignment["A"], assignment["B"], assignment["C"])
    /\ result' = evaluate_expression(tokens, assignment["A"], assignment["B"], assignment["C"])
    /\ bpc' = "done"
    /\ UNCHANGED <<tokens, assignment>>
    /\ UNCHANGED <<mapVars, opVars, evolveVars, runVars>>

BoolNext == EvaluateExpression

SpecBool == BoolInit /\ [][BoolNext]_vars

-----------------------------------------------------------------------------
(* Claims on the boolean evaluator *)

\* The meaning of an infix token sequence, by recursive descent: AND and OR
\* of equal precedence, grouping to the left; NOT applies to the factor that
\* follows it. A parse is [ok, value, next]: next is the first token not used.
ParseFailed == [ok |-> FALSE, value |-> FALSE, next |-> 0]

RECURSIVE RefFactor(_, _, _), RefTail(_, _, _, _)
RefExpr(toks, i, env) ==
    LET f == RefFactor(toks, i, env)
    IN  IF f.ok THEN RefTail(toks, f.next, env, f.value) ELSE ParseFailed

RefFactor(toks, i, env) ==
    IF i > Len(toks) THEN ParseFailed
    ELSE CASE toks[i] \in BoolVariables -> [ok |-> TRUE, value |-> env[toks[i]], next |-> i + 1]
           [] toks[i] = "NOT" ->
                LET f == RefFactor(toks, i + 1, env)
                IN  IF f.ok THEN [f EXCEPT !.value = ~f.value] ELSE ParseFailed
           [] toks[i] = "(" ->
                LET e == RefExpr(toks, i + 1, env)
                IN  IF e.ok /\ e.next <= Len(toks) /\ toks[e.next] = ")"
                      THEN [e EXCEPT !.next = e.next + 1]
                      ELSE ParseFailed
           [] OTHER -> ParseFailed

RefTail(toks, i, env, acc) ==
    IF i <= Len(toks) /\ toks[i] \in {"AND", "OR"}
      THEN LET f == RefFactor(toks, i + 1, env)
           IN  IF f.ok
                 THEN RefTail(toks, f.next, env,
                              IF toks[i] = "AND" THEN acc /\ f.value ELSE acc \/ f.value)
                 ELSE ParseFailed
      ELSE [ok |-> TRUE, value |-> acc, next |-> i]

WellFormedInfix(toks) ==
    LET e == RefExpr(toks, 1, [v \in BoolVariables |-> FALSE])
    IN  e.ok /\ e.next = Len(toks) + 1

TruthValue(toks, env) == RefExpr(toks, 1, env).value

TestTokens == <<"A", "AND", "B", "OR", "C">>

TestAssignment == [v \in BoolVariables |-> v # "B"]

\* C3: for a well-formed infix sequence, evaluate_postfix(infix_to_postfix(tokens))
\* is Some(truth value of the formula) at every assignment; A AND B OR C becomes
\* A B AND C OR and is true at A = true, B = false, C = true.
C3_RoundTripsTruthTable ==
    bpc = "done" =>
        /\ WellFormedInfix(tokens) => evaluated = Some(TruthValue(tokens, assignment))
        /\ tokens = TestTokens =>
              /\ postfix = <<"A", "B", "AND", "C", "OR">>
              /\ assignment = TestAssignment => evaluated = Some(TRUE)

\* The test expression has been evaluated at A = true, B = false, C = true.
C3_Witness ==
    /\ bpc = "done"
    /\ tokens = TestTokens
    /\ assignment = TestAssignment
    /\ WellFormedInfix(tokens)
    /\ evaluated = Some(TRUE)

\* The number of values a postfix sequence leaves on the value stack from
\* depth d, or -1 when an operator meets too few values.
RECURSIVE StackDepth(_, _)
StackDepth(pf, d) ==
    IF pf = <<>> THEN d
    ELSE LET t == Head(pf)
         IN  CASE t \in BoolVariables -> StackDepth(Tail(pf), d + 1)
               [] t \in {"AND", "OR"} -> IF d >= 2 THEN StackDepth(Tail(pf), d - 1) ELSE -1
               [] t = "NOT"           -> IF d >= 1 THEN StackDepth(Tail(pf), d) ELSE -1
               [] OTHER               -> StackDepth(Tail(pf), d)

MalformedPostfix(pf) == StackDepth(pf, 0) # 1

\* C4: evaluate_expression returns a boolean for every token sequence and never
\* panics; it returns false when an operator meets too few stack entries or
\* the final value stack does not hold exactly one entry.
C4_MalformedIsFalse ==
    bpc = "done" =>
        /\ ~result.panicked
        /\ evaluated.tag \in {"Some", "None"}
        /\ MalformedPostfix(postfix) => (evaluated = None /\ result.value = FALSE)
        /\ ~MalformedPostfix(postfix) => (evaluated.tag = "Some" /\ result.value = evaluated.value)

\* "A AND" has been evaluated with every variable true: AND met one operand.
C4_Witness ==
    /\ bpc = "done"
    /\ tokens = <<"A", "AND">>
    /\ assignment = [v \in BoolVariables |-> TRUE]
    /\ MalformedPostfix(postfix)
    /\ result = [panicked |-> FALSE, value |-> FALSE]

-----------------------------------------------------------------------------
(* The evolutionary operators. Each takes what the random source gave it as *)
(* explicit arguments: rng.gen_range(lo..hi) yields any value of lo..hi-1,  *)
(* rand::random::<usize>() % n any value of 0..n-1. Vec indices are 0-based *)
(* in the code and 1-based in the sequences here.                           *)

MUTATION_RANGE == 256
PARITY_MUTATION_RANGE == 255

\* A slip: the second child takes the first parent's genes after the cut gene.
OnePointCrossoverSkipsGene(parent1, parent2, crossover_point) ==
    [child1 |-> SubSeq(parent1, 1, crossover_point)
                  \o SubSeq(parent2, crossover_point + 1, Len(parent2)),
     child2 |-> SubSeq(parent2, 1, crossover_point)
                  \o SubSeq(parent1, crossover_point + 2, Len(parent1))]

\* one_point_crossover of src/src/evolutionary_ops.rs, crossover_point drawn
\* from 0..min(len(parent1), len(parent2)).
one_point_crossover(parent1, parent2, crossover_point) ==
    [child1 |-> SubSeq(parent1, 1, crossover_point)
                  \o SubSeq(parent2, crossover_point + 1, Len(parent2)),
     child2 |-> SubSeq(parent2, 1, crossover_point)
                  \o SubSeq(parent1, crossover_point + 1, Len(parent1))]

\* A slip: the drawn value is inserted at the locus instead of replacing it.
MutateInserts(g, index, value) ==
    SubSeq(g, 1, index) \o <<value>> \o SubSeq(g, index + 1, Len(g))

\* mutate of evolutionary_ops.rs and of the parity example: genome[index] = value.
mutate(g, index, value) == [g EXCEPT ![index + 1] = value]

\* The range the mutated value is drawn from: gen_range(0..256) in the
\* library, gen_range(0..255) in the parity example.
MutationValues(fn) ==
    IF fn = "parity::mutate" THEN 0..(PARITY_MUTATION_RANGE - 1) ELSE 0..(MUTATION_RANGE - 1)

-----------------------------------------------------------------------------
(* SpecOps: one call of one_point_crossover or of mutate *)

MaxOpGenomeLen == 3

OpGenomes == SeqsUpTo({0, 1, MAX_GENE_VALUE}, MaxOpGenomeLen)

OpInit ==
    /\ op = "none" /\ args = <<>> /\ draws = <<>> /\ ret = <<>>
    /\ MapIdle /\ BoolIdle /\ EvolveIdle /\ RunIdle

CallCrossover ==
    /\ op = "none"
    /\ \E parent1 \in OpGenomes, parent2 \in OpGenomes :
         \E crossover_point \in 0..(Min(Len(parent1), Len(parent2)) - 1) :
            /\ op' = "one_point_crossover"
            /\ args' = [parent1 |-> parent1, parent2 |-> parent2]
            /\ draws' = [crossover_point |-> crossover_point]
            /\ ret' = one_point_crossover(parent1, parent2, crossover_point)
    /\ UNCHANGED <<mapVars, boolVars, evolveVars, runVars>>

CallMutate ==
    /\ op = "none"
    /\ \E fn \in {"mutate", "parity::mutate"}, g \in OpGenomes :
         \E index \in 0..(Len(g) - 1), value \in MutationValues(fn) :
            /\ op' = fn
            /\ args' = [genome |-> g]
            /\ draws' = [index |-> index, value |-> value]
            /\ ret' = mutate(g, index, value)
    /\ UNCHANGED <<mapVars, boolVars, evolveVars, runVars>>

OpNext == CallCrossover \/ CallMutate

SpecOps == OpInit /\ [][OpNext]_vars

-----------------------------------------------------------------------------
(* Claims on crossover and mutation *)

\* C6: one_point_crossover keeps the total gene count; child1 is parent1 before
\* the cut followed by parent2 from the cut, child2 the complementary swap.
C6_CrossoverPreservesGeneCount ==
    op = "one_point_crossover" =>
        LET p1 == args.parent1
            p2 == args.parent2
            cut == draws.crossover_point
        IN  /\ Len(ret.child1) + Len(ret.child2) = Len(p1) + Len(p2)
            /\ Len(ret.child1) = Len(p2)
            /\ Len(ret.child2) = Len(p1)
            /\ \A i \in 1..Len(ret.child1) : ret.child1[i] = IF i <= cut THEN p1[i] ELSE p2[i]
            /\ \A i \in 1..Len(ret.child2) : ret.child2[i] = IF i <= cut THEN p2[i] ELSE p1[i]

\* Parents of different lengths have been crossed at an inner cut.
C6_Witness ==
    /\ op = "one_point_crossover"
    /\ Len(args.parent1) = 3 /\ Len(args.parent2) = 2
    /\ draws.crossover_point = 1
    /\ ret.child1 # args.parent1 /\ ret.child1 # args.parent2

DiffersAt(g, h) == {i \in 1..Min(Len(g), Len(h)) : g[i] # h[i]}

\* C7 as stated: after mutate the genome has the same length and differs from
\* the original at exactly one index.
C7_ExactlyOneLocusChanges ==
    op \in {"mutate", "parity::mutate"} =>
        /\ Len(ret) = Len(args.genome)
        /\ Cardinality(DiffersAt(ret, args.genome)) = 1

\* C7 as the code has it: the genome keeps its length, the drawn locus holds
\* the drawn value (a value of the codon range, which may be the one it held),
\* and every other locus is unchanged: at most one index differs.
C7_AtMostOneLocusChanges ==
    op \in {"mutate", "parity::mutate"} =>
        /\ Len(ret) = Len(args.genome)
        /\ ret[draws.index + 1] = draws.value
        /\ draws.value \in 0..MAX_GENE_VALUE
        /\ DiffersAt(ret, args.genome) \subseteq {draws.index + 1}

\* A locus has been overwritten with a different value.
C7_Witness ==
    /\ op = "mutate"
    /\ Len(args.genome) = 3
    /\ DiffersAt(ret, args.genome) = {2}

-----------------------------------------------------------------------------
(* tournament_selection of the vladislavleva4 example, over f64 fitness      *)
(* values. An f64 is held by its class: a finite value below f64::MAX (with  *)
(* its magnitude v), f64::MAX itself, +infinity, or not-a-number.            *)

Finite(v) == [class |-> "finite", v |-> v]
F64_MAX   == [class |-> "MAX", v |-> 0]
INFINITY  == [class |-> "inf", v |-> 0]
NAN       == [class |-> "NaN", v |-> 0]

ClassOrder(x) == CASE x.class = "finite" -> 0 [] x.class = "MAX" -> 1 [] OTHER -> 2

\* x < y on f64: false whenever either side is not-a-number.
Lt(x, y) ==
    /\ x.class # "NaN" /\ y.class # "NaN"
    /\ \/ ClassOrder(x) < ClassOrder(y)
       \/ x.class = "finite" /\ y.class = "finite" /\ x.v < y.v

\* for _ in 0..tournament_size { let index = ..; if fitness_values[index] < best_fitness {..} }
\* bt = [best_individual, best_fitness]; picks holds the indices drawn.
RECURSIVE VladTournamentLoop(_, _, _)
VladTournamentLoop(bt, fitness_values, picks) ==
    IF picks = <<>> THEN bt
    ELSE LET index == Head(picks)
         IN  VladTournamentLoop(
                 IF Lt(fitness_values[index + 1], bt.best_fitness)
                   THEN [best_individual |-> index, best_fitness |-> fitness_values[index + 1]]
                   ELSE bt,
                 fitness_values, Tail(picks))

\* The index of the individual the returned reference points to. first is the
\* index drawn for the initial best_individual, picks the tournament_size
\* indices drawn in the loop.
vlad_tournament_selection(fitness_values, first, picks) ==
    VladTournamentLoop([best_individual |-> first, best_fitness |-> F64_MAX],
                       fitness_values, picks).best_individual

-----------------------------------------------------------------------------
(* SpecTournament: one call of the example's tournament_selection *)

MaxTournamentPop == 3
MaxTournamentSize == 2

F64Values == {Finite(0), Finite(1), F64_MAX, INFINITY, NAN}

TournamentGenomes == {<<0>>, <<1, 1>>}

TournamentInit == OpInit

CallVladTournament ==
    /\ op = "none"
    /\ \E n \in 1..MaxTournamentPop, tournament_size \in 1..MaxTournamentSize :
         \E pop \in [1..n -> TournamentGenomes],
            fitness_values \in [1..n -> F64Values],
            first \in 0..(n - 1),
            picks \in [1..tournament_size -> 0..(n - 1)] :
            /\ op' = "vladislavleva4::tournament_selection"
            /\ args' = [population |-> pop, fitness_values |-> fitness_values,
                        tournament_size |-> tournament_size]
            /\ draws' = [first |-> first, picks |-> picks]
            /\ ret' = vlad_tournament_selection(fitness_values, first, picks)
    /\ UNCHANGED <<mapVars, boolVars, evolveVars, runVars>>

TournamentNext == CallVladTournament

SpecTournament == TournamentInit /\ [][TournamentNext]_vars

\* C8: the example's tournament_selection returns the sampled best: the
\* returned individual is one of the tournament_size candidates compared, and
\* no candidate has strictly lower fitness (infinite, f64::MAX and
\* not-a-number fitness values included).
C8_ReturnsSampledBest ==
    op = "vladislavleva4::tournament_selection" =>
        LET candidates == {draws.picks[k] : k \in 1..args.tournament_size}
        IN  /\ ret \in candidates
            /\ \A c \in candidates :
                  ~Lt(args.fitness_values[c + 1], args.fitness_values[ret + 1])

-----------------------------------------------------------------------------
(* The random source. Every rand::thread_rng() handle of a thread draws from *)
(* the same generator: it is held as a stream of raw values, read cyclically *)
(* from a tape fixed when the run starts, each draw reduced to its range.    *)

\* The raw value k draws ahead of the stream's position.
Draw(r, k) == r.tape[((r.pos + k) % Len(r.tape)) + 1]

Advance(r, n) == [r EXCEPT !.pos = (r.pos + n) % Len(r.tape)]

\* rng.gen_range(lo..hi)
GenRange(raw, lo, hi) == lo + (raw % (hi - lo))

-----------------------------------------------------------------------------
(* The population manager of the library *)

POPULATION_SIZE == 100
ELITISM_COUNT == 5
TOURNAMENT_SIZE == 2
INIT_LENGTH_END == 100
INIT_GENE_END == 256

\* (0..rng.gen_range(1..100)).map(|_| rng.gen_range(0..256)).collect()
RandomGenome(r) ==
    LET length == GenRange(Draw(r, 0), 1, INIT_LENGTH_END)
    IN  [genome |-> [i \in 1..length |-> GenRange(Draw(r, i), 0, INIT_GENE_END)],
         rng    |-> Advance(r, length + 1)]

RECURSIVE InitializeLoop(_, _, _)
InitializeLoop(size, r, acc) ==
    IF Len(acc) >= size THEN [population |-> acc, rng |-> r]
    ELSE LET g == RandomGenome(r)
         IN  InitializeLoop(size, g.rng, Append(acc, g.genome))

initialize_population(size, r) == InitializeLoop(size, r, <<>>)

\* The `fitness: &dyn Fn(&Vec<usize>) -> usize` a caller may pass.
FitnessFunctions == {"length", "sum"}

RECURSIVE SumOf(_)
SumOf(g) == IF g = <<>> THEN 0 ELSE Head(g) + SumOf(Tail(g))

FitnessOf(f, g) == IF f = "length" THEN Len(g) ELSE SumOf(g)

\* The sequence s with its elements worked out (s itself, as a value).
Evaluated(s) == SubSeq(s, 1, Len(s))

\* The genome whose place in the sorted vector is p, for p = 1..len.
Placed(pop, place) == [p \in 1..Len(pop) |-> pop[CHOOSE j \in 1..Len(pop) : place[j] = p]]

\* The place a stable ascending sort gives each index j of a vector with
\* these keys: after every entry of lower key and the earlier ones of equal key.
StablePlaces(keys) ==
    Evaluated([j \in DOMAIN keys |->
        1 + Cardinality({k \in DOMAIN keys :
                            keys[k] < keys[j] \/ (keys[k] = keys[j] /\ k < j)})])

\* A slip: the places of an unstable sort that reverses the entries of equal key.
TieReversingPlaces(keys) ==
    Evaluated([j \in DOMAIN keys |->
        1 + Cardinality({k \in DOMAIN keys :
                            keys[k] < keys[j] \/ (keys[k] = keys[j] /\ k > j)})])

KeysOf(pop, f) == Evaluated([j \in 1..Len(pop) |-> FitnessOf(f, pop[j])])

\* A slip: sort_by_key replaced by an unstable sort.
SortByKeyReversingTies(pop, f) == Placed(pop, TieReversingPlaces(KeysOf(pop, f)))

\* sorted_population.sort_by_key(|genome| fitness(genome)): a stable sort, ascending.
SortByKey(pop, f) == Placed(pop, StablePlaces(KeysOf(pop, f)))

\* for _ in 1..tournament_size: the contender replaces best when its genome
\* is shorter. best and the contenders are indices into the population.
RECURSIVE LibTournamentLoop(_, _, _)
LibTournamentLoop(pop, best, contenders) ==
    IF contenders = <<>> THEN best
    ELSE LET contender == Head(contenders)
         IN  LibTournamentLoop(pop,
                 IF Len(pop[contender + 1]) < Len(pop[best + 1]) THEN contender ELSE best,
                 Tail(contenders))

\* tournament_selection of evolutionary_ops.rs: the index of the genome the
\* returned reference points to; picks are the indices drawn, in order.
tournament_selection(pop, tournament_size, picks) ==
    LibTournamentLoop(pop, picks[1], SubSeq(picks, 2, tournament_size))

\* The indices the `count` draws from offset on give for a population of n.
DrawPicks(r, offset, count, n) ==
    [k \in 1..count |-> GenRange(Draw(r, offset + k - 1), 0, n)]

-----------------------------------------------------------------------------
(* SpecEvolve: population = evolve_population(&population, fitness), called  *)
(* generation after generation on a population of POPULATION_SIZE genomes    *)
(* made by initialize_population.                                            *)

MaxTapeLen == 3
MaxGenerations == 2

TapeValues == 0..3

Tapes == SeqsUpTo(TapeValues, MaxTapeLen)

EvolveInit ==
    /\ \E tape \in Tapes :
         LET made == initialize_population(POPULATION_SIZE, [tape |-> tape, pos |-> 0])
         IN  population = made.population /\ rng = made.rng
    /\ fitness \in FitnessFunctions
    /\ sorted_population = <<>>
    /\ new_population = <<>>
    /\ tournaments = <<>>
    /\ epc = "idle"
    /\ generation = 0
    /\ MapIdle /\ BoolIdle /\ OpIdle /\ RunIdle

\* The call up to the while loop: clone, sort, copy the elites.
EvolveBegin ==
    /\ epc = "idle"
    /\ generation < MaxGenerations
    /\ Len(population) >= ELITISM_COUNT
    /\ sorted_population' = SortByKey(population, fitness)
    /\ new_population' = SubSeq(sorted_population', 1, ELITISM_COUNT)
    /\ tournaments' = <<>>
    /\ epc' = "breeding"
    /\ UNCHANGED <<population, fitness, rng, generation>>
    /\ UNCHANGED <<mapVars, boolVars, opVars, runVars>>

\* One pass of `while new_population.len() < POPULATION_SIZE`.
BreedPair ==
    /\ epc = "breeding"
    /\ Len(new_population) < POPULATION_SIZE
    /\ LET n       == Len(sorted_population)
           picks1  == DrawPicks(rng, 0, TOURNAMENT_SIZE, n)
           picks2  == DrawPicks(rng, TOURNAMENT_SIZE, TOURNAMENT_SIZE, n)
           winner1 == tournament_selection(sorted_population, TOURNAMENT_SIZE, picks1)
           winner2 == tournament_selection(sorted_population, TOURNAMENT_SIZE, picks2)
           parent1 == sorted_population[winner1 + 1]
           parent2 == sorted_population[winner2 + 1]
           r       == Advance(rng, 2 * TOURNAMENT_SIZE)
           crossed == one_point_crossover(parent1, parent2,
                          GenRange(Draw(r, 0), 0, Min(Len(parent1), Len(parent2))))
           child1  == mutate(crossed.child1,
                             GenRange(Draw(r, 1), 0, Len(crossed.child1)),
                             GenRange(Draw(r, 2), 0, MUTATION_RANGE))
           child2  == mutate(crossed.child2,
                             GenRange(Draw(r, 3), 0, Len(crossed.child2)),
                             GenRange(Draw(r, 4), 0, MUTATION_RANGE))
       IN  /\ new_population' = new_population \o <<child1, child2>>
           /\ tournaments' = <<[picks |-> picks1, winner |-> winner1],
                               [picks |-> picks2, winner |-> winner2]>>
           /\ rng' = Advance(r, 5)
    /\ UNCHANGED <<population, fitness, sorted_population, epc, generation>>
    /\ UNCHANGED <<mapVars, boolVars, opVars, runVars>>

\* The loop ends, new_population is returned and becomes the caller's population.
EvolveReturn ==
    /\ epc = "breeding"
    /\ Len(new_population) >= POPULATION_SIZE
    /\ population' = new_population
    /\ epc' = "idle"
    /\ generation' = generation + 1
    /\ UNCHANGED <<fitness, rng, sorted_population, new_population, tournaments>>
    /\ UNCHANGED <<mapVars, boolVars, opVars, runVars>>

EvolveNext == EvolveBegin \/ BreedPair \/ EvolveReturn

SpecEvolve == EvolveInit /\ [][EvolveNext]_vars

-----------------------------------------------------------------------------
(* Claims on evolve_population *)

\* C5: the population keeps its cardinality: after any number of calls of
\* evolve_population the caller's population holds POPULATION_SIZE genomes.
C5_PopulationSizeFixed ==
    epc = "idle" => Len(population) = POPULATION_SIZE

\* The candidate a tournament should return under key function f: the first
\* drawn among those of lowest fitness.
SampledBest(pop, f, picks) ==
    picks[CHOOSE k \in 1..Len(picks) :
            \A l \in 1..Len(picks) :
               \/ FitnessOf(f, pop[picks[k] + 1]) < FitnessOf(f, pop[picks[l] + 1])
               \/ FitnessOf(f, pop[picks[k] + 1]) = FitnessOf(f, pop[picks[l] + 1]) /\ k <= l]

\* C9: each parent chosen in evolve_population is the sampled candidate of
\* best (lowest) fitness under the fitness function that ranked the elites,
\* the first drawn winning a tie.
C9_ParentsAreBestByFitness ==
    epc = "breeding" =>
        \A t \in 1..Len(tournaments) :
            tournaments[t].winner
              = SampledBest(sorted_population, fitness, tournaments[t].picks)

MinOf(S) == CHOOSE m \in S : \A x \in S : m <= x

FirstWithKey(keys, among, key) ==
    CHOOSE j \in among : keys[j] = key /\ \A k \in among : keys[k] = key => j <= k

\* The indices of the `count` best entries of a vector with these keys, best
\* first: each is the earliest entry of lowest key among those not yet taken.
RECURSIVE BestIndices(_, _, _)
BestIndices(keys, taken, count) ==
    IF count = 0 \/ DOMAIN keys \subseteq taken THEN <<>>
    ELSE LET j == FirstWithKey(keys, DOMAIN keys \ taken,
                               MinOf({keys[k] : k \in DOMAIN keys \ taken}))
         IN  <<j>> \o BestIndices(keys, taken \cup {j}, count - 1)

\* C10: throughout the breeding loop, and so in the result, the first
\* ELITISM_COUNT genomes of new_population are the ELITISM_COUNT genomes of
\* the input population of lowest fitness, best first, ties in input order;
\* crossover and mutation leave them as they were copied.
C10_ElitesCarriedOver ==
    epc = "breeding" =>
        LET best == BestIndices(KeysOf(population, fitness), {}, ELITISM_COUNT)
        IN  /\ Len(new_population) >= ELITISM_COUNT
            /\ Len(best) = ELITISM_COUNT
            /\ \A i \in 1..ELITISM_COUNT : new_population[i] = population[best[i]]

\* A second generation has been bred in full from an input population that
\* was not in fitness order and whose elites hold a tie between unlike genomes.
C10_Witness ==
    /\ epc = "breeding"
    /\ generation = 1
    /\ Len(new_population) >= POPULATION_SIZE
    /\ \E j \in 1..(Len(population) - 1) :
          FitnessOf(fitness, population[j]) > FitnessOf(fitness, population[j + 1])
    /\ \E i \in 1..(ELITISM_COUNT - 1) :
          /\ new_population[i] # new_population[i + 1]
          /\ FitnessOf(fitness, new_population[i]) = FitnessOf(fitness, new_population[i + 1])

-----------------------------------------------------------------------------
(* The generation loops of the parity and regression examples (fn main) *)

\* const POPULATION_SIZE of examples/parity and examples/regression
EXAMPLE_POPULATION_SIZE == 10
\* const MAX_GENERATIONS of both examples
MAX_GENERATIONS == 10

\* rng.gen_bool(MUTATION_RATE): true on the draws under the rate's threshold,
\* which for this random source is the draw 0.
GenBool(raw) == raw = 0

\* The eight rows of `combinations`.
Combinations ==
    << <<FALSE, FALSE, FALSE>>, <<FALSE, FALSE, TRUE>>, <<FALSE, TRUE, FALSE>>,
       <<FALSE, TRUE, TRUE>>,   <<TRUE, FALSE, FALSE>>, <<TRUE, FALSE, TRUE>>,
       <<TRUE, TRUE, FALSE>>,   <<TRUE, TRUE, TRUE>> >>

\* a ^ b ^ c
Xor3(a, b, c) == (a # b) # c

\* examples/parity evaluate_fitness: the rows on which the expression equals
\* the parity of its inputs.  toks is expression.split_whitespace().
parity_evaluate_fitness(toks) ==
    Cardinality({i \in 1..Len(Combinations) :
        evaluate_expression(toks, Combinations[i][1], Combinations[i][2], Combinations[i][3]).value
          = Xor3(Combinations[i][1], Combinations[i][2], Combinations[i][3])})

\* Option<Genome> as a sequence of at most one genome.
NoGenome == <<>>
SomeGenome(g) == <<g>>

\* What main gets for one genome: how the mapper's loop ended (pc stays
\* "running" when it never does) and the tokens of the phenotype.
Phenotype(prog, g) == [pc |-> MapEnd(prog, g).pc, tokens |-> MapEnd(prog, g).output]

-----------------------------------------------------------------------------
(* f64 arithmetic (IEEE 754 binary64, round to nearest, ties to even).      *)
(* A value is [class, sign, m, e]: class "finite" with the value            *)
(* sign * m * 2^e, "inf" (signed) or "NaN".  m is a natural number of at    *)
(* most MANTISSA_DIGITS bits, held as its limbs (base LimbBase, lowest      *)
(* first, no leading zero limb); a normal number has exactly                *)
(* MANTISSA_DIGITS bits, a subnormal one or a zero has e = MIN_EXPONENT.    *)

MANTISSA_DIGITS == 53
MIN_EXPONENT == -1074
MAX_EXPONENT == 971

\* A limb holds 14 bits, so that a product of two limbs and a carry stay
\* within a 32-bit integer.
LimbBase == 2 ^ 14

Max(a, b) == IF a > b THEN a ELSE b

RECURSIVE BTrim(_)
BTrim(a) == IF a # <<>> /\ a[Len(a)] = 0 THEN BTrim(SubSeq(a, 1, Len(a) - 1)) ELSE a

RECURSIVE BFromNat(_)
BFromNat(n) == IF n = 0 THEN <<>> ELSE <<n % LimbBase>> \o BFromNat(n \div LimbBase)

Limb(a, i) == IF i <= Len(a) THEN a[i] ELSE 0

\* The limbs lo..hi of a that it has
Limbs(a, lo, hi) == SubSeq(a, lo, Min(hi, Len(a)))

\* The first n limbs of a, with zeros for those it lacks
Padded(a, n) == IF Len(a) >= n THEN SubSeq(a, 1, n) ELSE a \o [i \in 1..(n - Len(a)) |-> 0]

RECURSIVE BAddFrom(_, _, _, _)
BAddFrom(a, b, i, carry) ==
    IF i > Len(a) /\ i > Len(b) THEN (IF carry = 0 THEN <<>> ELSE <<carry>>)
    ELSE <<(Limb(a, i) + Limb(b, i) + carry) % LimbBase>>
           \o BAddFrom(a, b, i + 1, (Limb(a, i) + Limb(b, i) + carry) \div LimbBase)

\* a - b for a >= b, the borrow out of the top limb left out
RECURSIVE BSubFrom(_, _, _, _)
BSubFrom(a, b, i, borrow) ==
    IF i > Len(a) THEN <<>>
    ELSE <<(Limb(a, i) - Limb(b, i) - borrow) % LimbBase>>
           \o BSubFrom(a, b, i + 1, IF Limb(a, i) - Limb(b, i) - borrow < 0 THEN 1 ELSE 0)

\* The limbs i down to lo of a against those of b
RECURSIVE BCmpFrom(_, _, _, _)
BCmpFrom(a, b, i, lo) ==
    IF i < lo THEN 0
    ELSE IF Limb(a, i) # Limb(b, i) THEN (IF Limb(a, i) < Limb(b, i) THEN -1 ELSE 1)
    ELSE BCmpFrom(a, b, i - 1, lo)

RECURSIVE BMulSmallFrom(_, _, _, _)
BMulSmallFrom(a, k, i, carry) ==
    IF i > Len(a) THEN (IF carry = 0 THEN <<>> ELSE <<carry>>)
    ELSE <<(a[i] * k + carry) % LimbBase>>
           \o BMulSmallFrom(a, k, i + 1, (a[i] * k + carry) \div LimbBase)

\* Sums of limbs that have yet to pass their carries up, made limbs
RECURSIVE CarryFrom(_, _, _)
CarryFrom(sums, i, carry) ==
    IF i > Len(sums) THEN (IF carry = 0 THEN <<>> ELSE <<carry>>)
    ELSE <<(sums[i] + carry) % LimbBase>>
           \o CarryFrom(sums, i + 1, (sums[i] + carry) \div LimbBase)

\* A number of more than 8 limbs is worked on 8 limbs at a time, the carry
\* (for "sub" the borrow) passed from one run of limbs to the next: [s, c]
\* are the limbs lo..hi of the result and the carry out of them.
CarriedOut(sum, n) == [s |-> Padded(sum, n), c |-> Limb(sum, n + 1)]

BorrowedOut(a, b, borrow) ==
    [s |-> BSubFrom(a, b, 1, borrow),
     c |-> IF BCmpFrom(a, b, Len(a), 1) = 0 THEN borrow
           ELSE IF BCmpFrom(a, b, Len(a), 1) < 0 THEN 1 ELSE 0]

RunOfLimbs(kind, a, b, lo, hi, carry) ==
    CASE kind = "add" ->
           CHOOSE out \in {CarriedOut(sum, hi - lo + 1) :
                             sum \in {BAddFrom(Limbs(a, lo, hi), Limbs(b, lo, hi), 1, carry)}} : TRUE
      [] kind = "mul" ->
           CHOOSE out \in {CarriedOut(sum, hi - lo + 1) :
                             sum \in {BMulSmallFrom(Limbs(a, lo, hi), b[1], 1, carry)}} : TRUE
      [] kind = "carry" ->
           CHOOSE out \in {CarriedOut(sum, hi - lo + 1) :
                             sum \in {CarryFrom(Limbs(a, lo, hi), 1, carry)}} : TRUE
      [] kind = "sub" -> BorrowedOut(Limbs(a, lo, hi), Limbs(b, lo, hi), carry)

Joined(low, high) == [s |-> low.s \o high.s, c |-> high.c]

\* The lower half is bound through a set, so that it is computed before the
\* upper half is taken up.
RECURSIVE RunsOfLimbs(_, _, _, _, _, _)
RunsOfLimbs(kind, a, b, lo, hi, carry) ==
    IF hi - lo < 8 THEN RunOfLimbs(kind, a, b, lo, hi, carry)
    ELSE CHOOSE out \in {Joined(low, RunsOfLimbs(kind, a, b, ((lo + hi) \div 2) + 1, hi, low.c)) :
                           low \in {RunsOfLimbs(kind, a, b, lo, (lo + hi) \div 2, carry)}} : TRUE

WithCarry(sum) == IF sum.c = 0 THEN sum.s ELSE sum.s \o <<sum.c>>

Carried(kind, a, b, n) ==
    CHOOSE out \in {WithCarry(sum) : sum \in {RunsOfLimbs(kind, a, b, 1, n, 0)}} : TRUE

BAdd(a, b) ==
    IF Len(a) <= 8 /\ Len(b) <= 8 THEN BAddFrom(a, b, 1, 0)
    ELSE Carried("add", a, b, Max(Len(a), Len(b)))

\* a - b for a >= b
BSub(a, b) ==
    IF Len(a) <= 8 THEN BTrim(BSubFrom(a, b, 1, 0))
    ELSE BTrim(RunsOfLimbs("sub", a, b, 1, Len(a), 0).s)

RECURSIVE BCmpRuns(_, _, _, _)
BCmpRuns(a, b, lo, hi) ==
    IF hi - lo < 8 THEN BCmpFrom(a, b, hi, lo)
    ELSE CHOOSE out \in {IF high # 0 THEN high ELSE BCmpRuns(a, b, lo, (lo + hi) \div 2) :
                           high \in {BCmpRuns(a, b, ((lo + hi) \div 2) + 1, hi)}} : TRUE

\* -1, 0 or 1 as a is below, equal to or above b
BCmp(a, b) ==
    IF Len(a) # Len(b) THEN (IF Len(a) < Len(b) THEN -1 ELSE 1)
    ELSE BCmpRuns(a, b, 1, Len(a))

\* a * k for k < LimbBase
BMulSmall(a, k) ==
    IF k = 0 THEN <<>>
    ELSE IF Len(a) <= 8 THEN BMulSmallFrom(a, k, 1, 0)
    ELSE Carried("mul", a, <<k>>, Len(a))

BShiftLimbs(a, n) == IF a = <<>> THEN a ELSE [i \in 1..n |-> 0] \o a

\* The sum over i in lo..hi of the low limbs (part 0) or the high limbs
\* (part 1) of the products a[i] * b[k + 1 - i]
RECURSIVE ColumnSum(_, _, _, _, _, _)
ColumnSum(a, b, k, part, lo, hi) ==
    IF lo > hi THEN 0
    ELSE IF hi - lo < 8
      THEN (IF part = 0 THEN (a[lo] * b[k + 1 - lo]) % LimbBase
            ELSE (a[lo] * b[k + 1 - lo]) \div LimbBase)
           + ColumnSum(a, b, k, part, lo + 1, hi)
    ELSE ColumnSum(a, b, k, part, lo, (lo + hi) \div 2)
         + ColumnSum(a, b, k, part, ((lo + hi) \div 2) + 1, hi)

\* What the products of the limbs add to limb k of a * b, before the carries
Column(a, b, k) ==
    ColumnSum(a, b, k, 0, Max(1, k + 1 - Len(b)), Min(k, Len(a)))
    + ColumnSum(a, b, k - 1, 1, Max(1, k - Len(b)), Min(k - 1, Len(a)))

Columns(a, b) == SubSeq([k \in 1..(Len(a) + Len(b)) |-> Column(a, b, k)], 1, Len(a) + Len(b))

BMulColumns(sums) ==
    IF Len(sums) <= 8 THEN BTrim(CarryFrom(sums, 1, 0))
    ELSE BTrim(Carried("carry", sums, <<>>, Len(sums)))

BMul(a, b) ==
    IF a = <<>> \/ b = <<>> THEN <<>>
    ELSE CHOOSE out \in {BMulColumns(sums) : sums \in {Columns(a, b)}} : TRUE

BSquare(a) == BMul(a, a)

RECURSIVE BPow(_, _)
BPow(a, k) ==
    IF k = 0 THEN <<1>>
    ELSE IF k % 2 = 1 THEN BMul(BPow(a, k - 1), a)
    ELSE BSquare(BPow(a, k \div 2))

\* a * 2^k
BShl(a, k) == BShiftLimbs(BMulSmall(a, 2 ^ (k % 14)), k \div 14)

\* floor(a / 2^k)
BShr(a, k) ==
    IF (k \div 14) >= Len(a) THEN <<>>
    ELSE BTrim([i \in 1..(Len(a) - (k \div 14)) |->
                  (Limb(a, i + (k \div 14)) \div (2 ^ (k % 14)))
                  + (Limb(a, i + 1 + (k \div 14)) % (2 ^ (k % 14)))
                      * (2 ^ (14 - (k % 14)))])

\* the low k bits of a are zero
BLowZero(a, k) ==
    /\ \A i \in 1..(k \div 14) : Limb(a, i) = 0
    /\ (Limb(a, 1 + (k \div 14)) % (2 ^ (k % 14))) = 0

\* bit i of a, the lowest being bit 0
BBit(a, i) == (Limb(a, 1 + (i \div 14)) \div (2 ^ (i % 14))) % 2

\* The number of bits of n: 5 has 3
NatBitLen(n) ==
    IF n = 0 THEN 0 ELSE CHOOSE k \in 1..31 : 2 ^ (k - 1) <= n /\ (k = 31 \/ n < 2 ^ k)

BitLen(a) == IF a = <<>> THEN 0 ELSE 14 * (Len(a) - 1) + NatBitLen(a[Len(a)])

\* a * LimbBase + limb
BPush(a, limb) == IF a = <<>> /\ limb = 0 THEN <<>> ELSE <<limb>> \o a

\* Long division, a limb of the dividend at a time, by a divisor d whose top
\* limb is at least LimbBase / 2. rr is the remainder so far with the next
\* limb brought down, rr < d * LimbBase; the quotient of its top two limbs by
\* the top limb of d is the next limb of the quotient, or one or two above it.
DigitGuess(d, rr) ==
    Min(LimbBase - 1,
        (Limb(rr, Len(d) + 1) * LimbBase + Limb(rr, Len(d))) \div d[Len(d)])

Digit(d, rr, guess) ==
    IF BCmp(BMulSmall(d, guess), rr) <= 0 THEN guess
    ELSE IF BCmp(BMulSmall(d, guess - 1), rr) <= 0 THEN guess - 1
    ELSE guess - 2

DivStep(d, q, rr, digit) == [q |-> BPush(q, digit), r |-> BSub(rr, BMulSmall(d, digit))]

DivLimb(d, st, limb) ==
    DivStep(d, st.q, BPush(st.r, limb), Digit(d, BPush(st.r, limb), DigitGuess(d, BPush(st.r, limb))))

\* The limbs hi down to lo of n.  The state after the upper half is bound
\* through a set, so that it is computed before the lower half is taken up.
RECURSIVE BDivFrom(_, _, _, _, _)
BDivFrom(n, d, st, hi, lo) ==
    IF hi < lo THEN st
    ELSE IF hi = lo THEN DivLimb(d, st, n[hi])
    ELSE CHOOSE out \in {BDivFrom(n, d, upper, ((lo + hi + 1) \div 2) - 1, lo) :
                           upper \in {BDivFrom(n, d, st, hi, (lo + hi + 1) \div 2)}} : TRUE

\* The shift that brings the top limb of d to LimbBase / 2 or above
Normalizer(d) == 14 - NatBitLen(d[Len(d)])

BDivShifted(qr, shift) == [q |-> qr.q, r |-> BShr(qr.r, shift)]

\* [q, r] with n = q * d + r and r < d, for d > 0
BDivMod(n, d) ==
    BDivShifted(BDivFrom(BShl(n, Normalizer(d)), BShl(d, Normalizer(d)),
                         [q |-> <<>>, r |-> <<>>], Len(BShl(n, Normalizer(d))), 1),
                Normalizer(d))

\* One step of Heron's iteration towards floor(sqrt(n)) from an estimate
\* at or above it.
SqrtNext(n, root) == BShr(BAdd(root, BDivMod(n, root).q), 1)

RECURSIVE BSqrtFrom(_, _)
BSqrtFrom(n, root) ==
    CHOOSE out \in {IF BCmp(next, root) >= 0 THEN root ELSE BSqrtFrom(n, next) :
                      next \in {SqrtNext(n, root)}} : TRUE

\* floor(sqrt(n))
BSqrt(n) == IF n = <<>> THEN <<>> ELSE BSqrtFrom(n, BShl(<<1>>, (BitLen(n) + 1) \div 2))

Zero(sign) == [class |-> "finite", sign |-> sign, m |-> <<>>, e |-> MIN_EXPONENT]

Inf(sign) == [class |-> "inf", sign |-> sign, m |-> <<>>, e |-> 0]

NaN == [class |-> "NaN", sign |-> 1, m |-> <<>>, e |-> 0]

IsNaN(x) == x.class = "NaN"

IsZero(x) == x.class = "finite" /\ x.m = <<>>

Neg(x) == IF IsNaN(x) THEN x ELSE [x EXCEPT !.sign = 0 - x.sign]

\* The f64 of a rounded mantissa: a carry out of the mantissa moves the
\* exponent up, an exponent above MAX_EXPONENT is an overflow to infinity.
Pack(sign, m, e) ==
    IF m = <<>> THEN Zero(sign)
    ELSE IF BitLen(m) > MANTISSA_DIGITS
      THEN (IF e + 1 > MAX_EXPONENT THEN Inf(sign)
            ELSE [class |-> "finite", sign |-> sign, m |-> BShr(m, 1), e |-> e + 1])
    ELSE IF e > MAX_EXPONENT THEN Inf(sign)
    ELSE [class |-> "finite", sign |-> sign, m |-> m, e |-> e]

\* Round to nearest, ties to even: m is the kept part, half the first bit
\* dropped, rest whether anything below it is not zero.
RoundUp(sign, m, half, rest, e) ==
    Pack(sign, IF half /\ (rest \/ BBit(m, 0) = 1) THEN BAdd(m, <<1>>) ELSE m, e)

\* (q + f) * 2^e with the low k bits of q dropped (k <= 0: none, and f = 0);
\* sticky says that 0 < f < 1.
RoundAt(sign, q, sticky, e, k) ==
    IF k <= 0 THEN Pack(sign, BShl(q, 0 - k), e + k)
    ELSE RoundUp(sign, BShr(q, k), BBit(q, k - 1) = 1, sticky \/ ~BLowZero(q, k - 1), e + k)

\* The f64 nearest to (q + f) * 2^e
RoundInt(sign, q, sticky, e) ==
    RoundAt(sign, q, sticky, e, Max(BitLen(q) - MANTISSA_DIGITS, MIN_EXPONENT - e))

\* A remainder that is not zero stands for the bits below the quotient
DivRound(sign, qr, e) ==
    IF qr.r = <<>> THEN RoundInt(sign, qr.q, FALSE, e) ELSE RoundInt(sign, qr.q, TRUE, e)

\* The f64 nearest to (n / d) * 2^e: the quotient is taken with two bits
\* more than the mantissa holds.
FromRatio(sign, n, d, e) ==
    IF n = <<>> THEN Zero(sign)
    ELSE DivRound(sign,
                  BDivMod(BShl(n, Max(0, MANTISSA_DIGITS + 2 + BitLen(d) - BitLen(n))), d),
                  e - Max(0, MANTISSA_DIGITS + 2 + BitLen(d) - BitLen(n)))

\* The f64 nearest to the whole number sign * n
FromNat(sign, n) == RoundInt(sign, BFromNat(n), FALSE, 0)

\* The f64 a decimal literal, str::parse::<f64> or `as f64` gives for
\* sign * n / d: the nearest one.
Fin(sign, n, d) ==
    IF d = 1 THEN FromNat(sign, n) ELSE FromRatio(sign, BFromNat(n), BFromNat(d), 0)

\* a * 2^e + b * 2^e with the signs sa, sb
AddAligned(sa, a, sb, b, e) ==
    IF sa = sb THEN RoundInt(sa, BAdd(a, b), FALSE, e)
    ELSE IF BCmp(a, b) = 0 THEN Zero(1)
    ELSE IF BCmp(a, b) > 0 THEN RoundInt(sa, BSub(a, b), FALSE, e)
    ELSE RoundInt(sb, BSub(b, a), FALSE, e)

\* x + y
FAdd(x, y) ==
    CASE IsNaN(x) \/ IsNaN(y) -> NaN
      [] x.class = "inf" /\ y.class = "inf" -> IF x.sign = y.sign THEN x ELSE NaN
      [] x.class = "inf" -> x
      [] y.class = "inf" -> y
      [] IsZero(x) /\ IsZero(y) -> Zero(IF x.sign = -1 /\ y.sign = -1 THEN -1 ELSE 1)
      [] IsZero(x) -> y
      [] IsZero(y) -> x
      [] OTHER -> AddAligned(x.sign, BShl(x.m, x.e - Min(x.e, y.e)),
                             y.sign, BShl(y.m, y.e - Min(x.e, y.e)), Min(x.e, y.e))

\* x - y
FSub(x, y) == FAdd(x, Neg(y))

\* x * y
FMul(x, y) ==
    CASE IsNaN(x) \/ IsNaN(y) -> NaN
      [] (x.class = "inf" /\ IsZero(y)) \/ (IsZero(x) /\ y.class = "inf") -> NaN
      [] x.class = "inf" \/ y.class = "inf" -> Inf(x.sign * y.sign)
      [] IsZero(x) \/ IsZero(y) -> Zero(x.sign * y.sign)
      [] OTHER -> RoundInt(x.sign * y.sign, BMul(x.m, y.m), FALSE, x.e + y.e)

\* x / y
FDiv(x, y) ==
    CASE IsNaN(x) \/ IsNaN(y) -> NaN
      [] x.class = "inf" /\ y.class = "inf" -> NaN
      [] IsZero(x) /\ IsZero(y) -> NaN
      [] x.class = "inf" -> Inf(x.sign * y.sign)
      [] y.class = "inf" -> Zero(x.sign * y.sign)
      [] IsZero(y) -> Inf(x.sign * y.sign)
      [] OTHER -> FromRatio(x.sign * y.sign, x.m, y.m, x.e - y.e)

\* -1, 0 or 1 as |x| is below, equal to or above |y|, neither being NaN
MagnitudeCmp(x, y) ==
    IF x.class = "inf" \/ y.class = "inf"
      THEN (IF x.class = y.class THEN 0 ELSE IF x.class = "inf" THEN 1 ELSE -1)
    ELSE IF x.e # y.e THEN (IF x.e < y.e THEN -1 ELSE 1)
    ELSE BCmp(x.m, y.m)

\* x < y; false when either is NaN
FLt(x, y) ==
    /\ ~IsNaN(x) /\ ~IsNaN(y)
    /\ ~(IsZero(x) /\ IsZero(y))
    /\ IF x.sign # y.sign THEN x.sign = -1
       ELSE x.sign * MagnitudeCmp(x, y) = -1

-----------------------------------------------------------------------------
(* evaluate_expression and evaluate_fitness of the regression example.      *)
(* tokens.get(index) is indexed from 0; a parse state is [value, index].    *)

TokenAt(toks, index) == IF index < Len(toks) THEN <<toks[index + 1]>> ELSE <<>>

\* token.parse::<f64>().unwrap_or(0.0) on the tokens the grammar can emit
ParseF64OrZero(token) ==
    Fin(1, CASE token = "1.0" -> 1 [] token = "2.0" -> 2 [] token = "3.0" -> 3 [] OTHER -> 0, 1)

RECURSIVE parse_E(_, _, _, _), parse_E_loop(_, _, _, _), parse_T(_, _, _, _),
          parse_T_loop(_, _, _, _), parse_F(_, _, _, _)

parse_F(toks, x_val, y_val, index) ==
    CHOOSE out \in
      {CASE t = <<"x">> -> [value |-> x_val, index |-> index + 1]
         [] t = <<"y">> -> [value |-> y_val, index |-> index + 1]
         [] t = <<"(">> ->
              CHOOSE closed \in
                {IF TokenAt(toks, inner.index) = <<")">>
                   THEN [inner EXCEPT !.index = inner.index + 1]
                   ELSE inner : inner \in {parse_E(toks, x_val, y_val, index + 1)}} : TRUE
         [] t = <<>> -> [value |-> Fin(1, 0, 1), index |-> index]
         [] OTHER -> [value |-> ParseF64OrZero(t[1]), index |-> index + 1] :
       t \in {TokenAt(toks, index)}} : TRUE

\* while *index < tokens.len() { match "*" / "/" / _ => break }
parse_T_loop(toks, x_val, y_val, st) ==
    CHOOSE out \in
      {IF t \in {<<"*">>, <<"/">>}
         THEN CHOOSE next \in
                {parse_T_loop(toks, x_val, y_val,
                     [value |-> IF t = <<"*">> THEN FMul(st.value, rhs.value)
                                ELSE FDiv(st.value, rhs.value),
                      index |-> rhs.index]) :
                   rhs \in {parse_F(toks, x_val, y_val, st.index + 1)}} : TRUE
         ELSE st : t \in {TokenAt(toks, st.index)}} : TRUE

parse_T(toks, x_val, y_val, index) ==
    CHOOSE out \in {parse_T_loop(toks, x_val, y_val, st) :
                      st \in {parse_F(toks, x_val, y_val, index)}} : TRUE

\* while *index < tokens.len() { match "+" / "-" / _ => break }
parse_E_loop(toks, x_val, y_val, st) ==
    CHOOSE out \in
      {IF t \in {<<"+">>, <<"-">>}
         THEN CHOOSE next \in
                {parse_E_loop(toks, x_val, y_val,
                     [value |-> IF t = <<"+">> THEN FAdd(st.value, rhs.value)
                                ELSE FSub(st.value, rhs.value),
                      index |-> rhs.index]) :
                   rhs \in {parse_T(toks, x_val, y_val, st.index + 1)}} : TRUE
         ELSE st : t \in {TokenAt(toks, st.index)}} : TRUE

parse_E(toks, x_val, y_val, index) ==
    CHOOSE out \in {parse_E_loop(toks, x_val, y_val, st) :
                      st \in {parse_T(toks, x_val, y_val, index)}} : TRUE

regression_evaluate_expression(toks, x_val, y_val) == parse_E(toks, x_val, y_val, 0).value

\* let data = vec![(0.1, 0.3, 0.31), (0.2, 0.6, 0.59)]
RegressionData ==
    << [x |-> Fin(1, 1, 10), y |-> Fin(1, 3, 10), actual_value |-> Fin(1, 31, 100)],
       [x |-> Fin(1, 2, 10), y |-> Fin(1, 6, 10), actual_value |-> Fin(1, 59, 100)] >>

SquaredError(toks, row) ==
    CHOOSE out \in
      {FMul(error, error) :
         error \in {FSub(regression_evaluate_expression(toks, row.x, row.y),
                         row.actual_value)}} : TRUE

RECURSIVE TotalError(_, _, _)
TotalError(toks, data, k) ==
    IF k = 0 THEN Fin(1, 0, 1)
    ELSE FAdd(TotalError(toks, data, k - 1), SquaredError(toks, data[k]))

calculate_mse(toks, data) ==
    FDiv(TotalError(toks, data, Len(data)), Fin(1, Len(data), 1))

\* 1.0 / (1.0 + mse)
regression_evaluate_fitness(toks, data) ==
    FDiv(Fin(1, 1, 1), FAdd(Fin(1, 1, 1), calculate_mse(toks, data)))

-----------------------------------------------------------------------------
(* SpecMain: fn main of the parity and regression examples, one pass of the *)
(* for loop of evolve_population at a time, then the evaluation of the      *)
(* generation.                                                              *)

MainPrograms == {"parity", "regression"}

\* Generations followed.
MaxRunGenerations == 3

\* evaluate_fitness(&map_genome_to_phenotype(genome), ..) as main calls it
FitnessOfPhenotype(prog, toks) ==
    IF prog = "parity" THEN parity_evaluate_fitness(toks)
    ELSE regression_evaluate_fitness(toks, RegressionData)

FitnessOfGenome(prog, g) == FitnessOfPhenotype(prog, Phenotype(prog, g).tokens)

\* let mut best_fitness = 0  /  let mut best_fitness: f64 = 0.0
InitialBestFitness(prog) == IF prog = "parity" THEN 0 ELSE Fin(1, 0, 1)

\* a > b on the program's fitness type (i32, f64)
Greater(prog, a, b) == IF prog = "parity" THEN a > b ELSE FLt(b, a)

\* A slip: a generation that only ties the record overwrites it.
BetterOrTie(prog, current, recorded) == ~Greater(prog, recorded, current)

\* if current_best_fitness > best_fitness
StrictlyBetter(prog, current, recorded) == Greater(prog, current, recorded)

\* The regression main orders by partial_cmp(..).unwrap(): with two or more
\* genomes every key is compared, and a NaN key makes the unwrap panic.
ComparePanics(prog, keys) ==
    /\ prog = "regression"
    /\ Len(keys) >= 2
    /\ \E j \in 1..Len(keys) : IsNaN(keys[j])

\* Iterator::max_by_key / max_by: the index (from 1) of the last maximum.
MaxBy(prog, keys) ==
    CHOOSE j \in 1..Len(keys) :
        /\ \A k \in 1..Len(keys) : ~Greater(prog, keys[k], keys[j])
        /\ \A k \in (j + 1)..Len(keys) : Greater(prog, keys[j], keys[k])

\* Genomes main can start from: ten codons each, drawn from 0..254.
ParityPopulation ==
    << <<0, 0, 1, 0, 1, 1, 2, 1, 3, 0>>,    \* A AND B OR C
       <<0, 0, 0, 1, 1, 1, 1, 2, 1, 3>>,    \* A OR B OR C
       <<0, 0, 1, 1, 1, 1, 1, 2, 1, 3>>,    \* A OR A
       <<1, 0, 1, 0, 3, 2, 2, 1, 3, 2>>,    \* B AND B OR C
       <<0, 1, 1, 2, 0, 0, 0, 0, 0, 0>>,    \* B
       <<254, 1, 1, 3, 0, 0, 0, 0, 0, 0>>,  \* C
       <<0, 0, 1, 0, 1, 1, 2, 1, 3, 0>>,
       <<0, 1, 1, 1, 0, 0, 0, 0, 0, 0>>,
       <<0, 1, 1, 0, 1, 0, 0, 0, 0, 0>>,    \* NOT A
       <<0, 1, 1, 1, 0, 0, 0, 0, 0, 0>> >>

RegressionPopulation ==
    << <<0, 2, 2, 3, 0, 1, 0, 3, 4, 2>>,    \* 1.0
       <<0, 2, 2, 1, 0, 0, 0, 0, 0, 0>>,    \* y
       <<5, 3, 1, 2, 5, 2, 1, 5, 5, 3>>,    \* ( 1.0 - 1.0 ) - 3.0 / ( 1.0 - 1.0 ) + 3.0 / ( 1.0 - 1.0 )
       <<0, 2, 2, 0, 0, 0, 0, 0, 0, 0>>,    \* x
       <<3, 2, 4, 2, 5, 5, 3, 4, 5, 4>>,    \* 3.0 / 3.0
       <<2, 5, 2, 4, 5, 2, 5, 3, 0, 4>>,    \* 2.0
       <<0, 2, 2, 3, 0, 1, 0, 3, 4, 2>>,
       <<254, 2, 2, 0, 0, 0, 0, 0, 0, 0>>,
       <<0, 2, 2, 0, 0, 0, 0, 0, 0, 0>>,
       <<0, 2, 2, 3, 0, 1, 0, 3, 4, 2>> >>

SamplePopulation(prog) == IF prog = "parity" THEN ParityPopulation ELSE RegressionPopulation

\* What the thread's random source yields during one generation: a stream
\* repeating one of these.
RunTapes ==
    { <<1>>, <<3>>, <<5>>, <<0, 1>>, <<2, 1>>, <<4, 1>>, <<3, 0, 3, 1>>, <<2, 1, 3, 1>>, <<0, 1, 4, 1>>,
      <<1, 2, 3>> }

MainInit ==
    /\ program \in MainPrograms
    /\ population = SamplePopulation(program)
    /\ \E tape \in RunTapes : rng = [tape |-> tape, pos |-> 0]
    /\ new_population = <<>>
    /\ best_genome = NoGenome
    /\ best_fitness = InitialBestFitness(program)
    /\ current_best = <<>>
    /\ generation = 0
    /\ epc = "evolving"
    /\ fitness = Idle /\ sorted_population = Idle /\ tournaments = Idle
    /\ run_fitness_values = Idle
    /\ MapIdle /\ BoolIdle /\ OpIdle

\* One pass of `for _ in 0..POPULATION_SIZE` in the example's evolve_population.
MainEvolveChild ==
    /\ epc = "evolving"
    /\ generation < MAX_GENERATIONS /\ generation < MaxRunGenerations
    /\ Len(new_population) < EXAMPLE_POPULATION_SIZE
    /\ LET child == population[GenRange(Draw(rng, 0), 0, EXAMPLE_POPULATION_SIZE) + 1]
       IN  IF GenBool(Draw(rng, 1))
             THEN /\ new_population' =
                        Append(new_population,
                               mutate(child, GenRange(Draw(rng, 2), 0, Len(child)),
                                      GenRange(Draw(rng, 3), 0, PARITY_MUTATION_RANGE)))
                  /\ rng' = Advance(rng, 4)
             ELSE /\ new_population' = Append(new_population, child)
                  /\ rng' = Advance(rng, 2)
    /\ UNCHANGED <<population, generation, epc, fitness, sorted_population, tournaments>>
    /\ UNCHANGED <<mapVars, boolVars, opVars, runVars>>

\* The rest of the loop body: population = new_population, the best of the
\* generation, the update of the recorded best.
MainEvaluate ==
    /\ epc = "evolving"
    /\ Len(new_population) = EXAMPLE_POPULATION_SIZE
    /\ \E phenotypes \in {Evaluated([j \in 1..Len(new_population) |->
                                          Phenotype(program, new_population[j])])} :
       \E keys \in {Evaluated([j \in 1..Len(new_population) |->
                                  FitnessOfPhenotype(program, phenotypes[j].tokens)])} :
           /\ \A j \in 1..Len(new_population) : phenotypes[j].pc # "running"
           /\ IF ComparePanics(program, keys)
                 THEN /\ epc' = "panicked"
                      /\ UNCHANGED <<best_genome, best_fitness, current_best, generation, rng>>
                 ELSE LET j == MaxBy(program, keys)
                      IN  /\ current_best' = <<[genome |-> new_population[j], fitness |-> keys[j],
                                                recorded |-> best_fitness]>>
                          /\ IF StrictlyBetter(program, keys[j], best_fitness)
                               THEN /\ best_fitness' = keys[j]
                                    /\ best_genome' = SomeGenome(new_population[j])
                               ELSE UNCHANGED <<best_genome, best_fitness>>
                          /\ generation' = generation + 1
                          /\ \E tape \in RunTapes : rng' = [tape |-> tape, pos |-> 0]
                          /\ epc' = "evolving"
    /\ population' = new_population
    /\ new_population' = <<>>
    /\ UNCHANGED <<fitness, sorted_population, tournaments, program, run_fitness_values>>
    /\ UNCHANGED <<mapVars, boolVars, opVars>>

MainNext == MainEvolveChild \/ MainEvaluate

SpecMain == MainInit /\ [][MainNext]_vars

-----------------------------------------------------------------------------
(* Claims on the generation loops of the parity and regression examples *)

\* C11: the recorded best is a ratchet.  In every step of main the recorded
\* best_fitness does not decrease; best_genome changes only in a generation
\* whose best fitness is strictly greater than the fitness recorded before,
\* and then to that generation's best genome; and a recorded best genome
\* always has the recorded best_fitness as its fitness.
C11_BestIsMonotonicRatchet ==
    [][ /\ ~Greater(program, best_fitness, best_fitness')
        /\ best_genome' # best_genome =>
              /\ current_best' # <<>>
              /\ Greater(program, current_best'[1].fitness, best_fitness)
              /\ best_genome' = SomeGenome(current_best'[1].genome)
              /\ best_fitness' = current_best'[1].fitness
        /\ best_genome' # NoGenome =>
              FitnessOfGenome(program, best_genome'[1]) = best_fitness'
      ]_vars

\* A later generation ties the recorded best with another genome, and the
\* record stays as it was.
C11_Witness ==
    /\ program \in MainPrograms
    /\ generation >= 2
    /\ current_best # <<>> /\ best_genome # NoGenome
    /\ current_best[1].fitness = best_fitness
    /\ current_best[1].recorded = best_fitness
    /\ current_best[1].genome # best_genome[1]

\* A later generation betters a record that an earlier generation had set.
C11_RecordRaised ==
    /\ program \in MainPrograms
    /\ generation >= 2
    /\ current_best # <<>>
    /\ Greater(program, current_best[1].recorded, InitialBestFitness(program))
    /\ Greater(program, current_best[1].fitness, current_best[1].recorded)


-----------------------------------------------------------------------------
(* The vladislavleva4 example: expression strings, parse_expression and     *)
(* evaluate. An expression string is held as the tokens split_whitespace()  *)
(* yields for it; a token's characters are looked up in Chars.              *)

\* The tokens of the expressions considered, with the characters of each.
Chars(token) ==
    CASE token = "x[0]"  -> <<"x", "[", "0", "]">>
      [] token = "x[1]"  -> <<"x", "[", "1", "]">>
      [] token = "x[2]"  -> <<"x", "[", "2", "]">>
      [] token = "x[3]"  -> <<"x", "[", "3", "]">>
      [] token = "x[4]"  -> <<"x", "[", "4", "]">>
      [] token = "x[7]"  -> <<"x", "[", "7", "]">>
      [] token = "x["    -> <<"x", "[">>
      [] token = "x[a]"  -> <<"x", "[", "a", "]">>
      [] token = "0.0"   -> <<"0", ".", "0">>
      [] token = "1.0"   -> <<"1", ".", "0">>
      [] token = "2.0"   -> <<"2", ".", "0">>
      [] token = "4"     -> <<"4">>
      [] token = "-1"    -> <<"-", "1">>
      [] token = "0.5"   -> <<"0", ".", "5">>
      [] token = "1e5"   -> <<"1", "e", "5">>
      [] token = "1E2"   -> <<"1", "E", "2">>
      [] token = "1e-3"  -> <<"1", "e", "-", "3">>
      [] token = "inf"   -> <<"i", "n", "f">>
      [] token = "-inf"  -> <<"-", "i", "n", "f">>
      [] token = "+inf"  -> <<"+", "i", "n", "f">>
      [] token = "infinity" -> <<"i", "n", "f", "i", "n", "i", "t", "y">>
      [] token = "NaN"   -> <<"N", "a", "N">>
      [] token = "nan"   -> <<"n", "a", "n">>
      [] token = "."     -> <<".">>
      [] token = "+"     -> <<"+">>
      [] token = "-"     -> <<"-">>
      [] token = "*"     -> <<"*">>
      [] token = "/"     -> <<"/">>
      [] token = "pow("  -> <<"p", "o", "w", "(">>
      [] token = "sqrt(" -> <<"s", "q", "r", "t", "(">>
      [] token = ","     -> <<",">>
      [] token = ")"     -> <<")">>
      [] token = "Expr"  -> <<"E", "x", "p", "r">>
      [] token = "Op"    -> <<"O", "p">>

\* str::starts_with
StartsWith(chars, prefix) ==
    Len(chars) >= Len(prefix) /\ SubSeq(chars, 1, Len(prefix)) = prefix

\* char::to_digit(10): the digit, or -1 for None
ToDigit(c) ==
    CASE c = "0" -> 0 [] c = "1" -> 1 [] c = "2" -> 2 [] c = "3" -> 3 [] c = "4" -> 4
      [] c = "5" -> 5 [] c = "6" -> 6 [] c = "7" -> 7 [] c = "8" -> 8 [] c = "9" -> 9
      [] OTHER -> -1

\* char::to_ascii_lowercase on the letters of "infinity" and "nan"
ToAsciiLowercase(c) ==
    CASE c = "I" -> "i" [] c = "N" -> "n" [] c = "F" -> "f" [] c = "T" -> "t"
      [] c = "Y" -> "y" [] c = "A" -> "a" [] OTHER -> c

\* The whole number a run of decimal digits writes: the digits before the
\* middle, moved up by the digits after it
RECURSIVE DigitsValue(_)
DigitsValue(cs) ==
    IF cs = <<>> THEN <<>>
    ELSE IF Len(cs) = 1 THEN BFromNat(ToDigit(cs[1]))
    ELSE BAdd(BMul(DigitsValue(SubSeq(cs, 1, Len(cs) \div 2)),
                   BPow(<<10>>, Len(cs) - (Len(cs) \div 2))),
              DigitsValue(SubSeq(cs, (Len(cs) \div 2) + 1, Len(cs))))

\* The exponent a run of decimal digits writes, held at 10^6 from there on
RECURSIVE ExponentValue(_)
ExponentValue(cs) ==
    IF cs = <<>> THEN 0
    ELSE Min(10 ^ 6, 10 * ExponentValue(SubSeq(cs, 1, Len(cs) - 1)) + ToDigit(cs[Len(cs)]))

AllDigits(cs) == \A i \in 1..Len(cs) : ToDigit(cs[i]) >= 0

\* The f64 nearest to sign * n * 10^k, for digits decimal digits of n
Decimal(sign, n, digits, k) ==
    IF n = <<>> THEN Zero(sign)
    ELSE IF k > 308 THEN Inf(sign)
    ELSE IF digits + k < -323 THEN Zero(sign)
    ELSE IF k >= 0 THEN RoundInt(sign, BMul(n, BPow(<<5>>, k)), FALSE, k)
    ELSE FromRatio(sign, n, BPow(<<5>>, 0 - k), k)

\* The number part of a literal: digits, an optional point, digits, and an
\* optional exponent of e or E, an optional sign and digits.
ParseNumber(sign, mantissa, exponent, marked) ==
    LET points   == {i \in 1..Len(mantissa) : mantissa[i] = "."}
        point    == IF points = {} THEN Len(mantissa) + 1 ELSE CHOOSE i \in points : TRUE
        integral == SubSeq(mantissa, 1, point - 1)
        fraction == SubSeq(mantissa, point + 1, Len(mantissa))
        signed   == exponent # <<>> /\ exponent[1] \in {"+", "-"}
        power    == IF signed THEN Tail(exponent) ELSE exponent
    IN  IF /\ Cardinality(points) <= 1
           /\ integral \o fraction # <<>>
           /\ AllDigits(integral \o fraction)
           /\ marked => (power # <<>> /\ AllDigits(power))
          THEN <<Decimal(sign, DigitsValue(integral \o fraction), Len(integral \o fraction),
                         (IF signed /\ exponent[1] = "-" THEN 0 - ExponentValue(power)
                          ELSE ExponentValue(power)) - Len(fraction))>>
          ELSE <<>>

\* str::parse::<f64>(): <<value>> for Ok, <<>> for Err.  An optional sign,
\* then a number, or "inf", "infinity" or "nan" in either case.
ParseF64(chars) ==
    LET signed  == chars # <<>> /\ chars[1] \in {"+", "-"}
        sign    == IF signed /\ chars[1] = "-" THEN -1 ELSE 1
        literal == IF signed THEN Tail(chars) ELSE chars
        word    == [i \in 1..Len(literal) |-> ToAsciiLowercase(literal[i])]
        marks   == {i \in 1..Len(literal) : literal[i] \in {"e", "E"}}
        mark    == IF marks = {} THEN Len(literal) + 1
                   ELSE CHOOSE i \in marks : \A j \in marks : i <= j
    IN  IF word \in {<<"i", "n", "f">>, <<"i", "n", "f", "i", "n", "i", "t", "y">>}
          THEN <<Inf(sign)>>
        ELSE IF word = <<"n", "a", "n">> THEN <<NaN>>
        ELSE ParseNumber(sign, SubSeq(literal, 1, mark - 1),
                         SubSeq(literal, mark + 1, Len(literal)), marks # {})

\* enum Expr
Binary(kind, a, b) == [kind |-> kind, a |-> a, b |-> b]
Sqrt(a)            == [kind |-> "Sqrt", a |-> a]
Var(index)         == [kind |-> "Var", index |-> index]
Const(value)       == [kind |-> "Const", value |-> value]

\* Result<(Expr, usize), &'static str>, or the panic of the call
ParseOk(expr, next) == [tag |-> "Ok", expr |-> expr, next |-> next, err |-> ""]
ParseErr(msg)       == [tag |-> "Err", expr |-> <<>>, next |-> 0, err |-> msg]
ParsePanic          == [tag |-> "Panic", expr |-> <<>>, next |-> 0, err |-> ""]

\* match op { "+" => Expr::Add(..), "-" => Expr::Sub(..), "*" => Expr::Mul(..), "/" => Expr::Div(..) }
BinaryKind(operator) ==
    CASE operator = "+" -> "Add" [] operator = "-" -> "Sub"
      [] operator = "*" -> "Mul" [] operator = "/" -> "Div"

RECURSIVE parse_expr(_, _), parse_expr_loop(_, _, _), parse_term(_, _), parse_call(_, _, _)

\* tokens[index] is indexed from 0 and panics when index >= tokens.len()
parse_term(toks, index) ==
    IF index >= Len(toks) THEN ParsePanic
    ELSE CHOOSE out \in
      {IF StartsWith(chars, <<"x", "[">>) THEN
           IF Len(chars) < 3 THEN ParsePanic                 \* chars().nth(2).unwrap()
           ELSE IF ToDigit(chars[3]) < 0 THEN ParsePanic     \* to_digit(10).unwrap()
           ELSE ParseOk(Var(ToDigit(chars[3])), index + 1)
       ELSE CHOOSE term \in
         {IF number # <<>> THEN ParseOk(Const(number[1]), index + 1)
          ELSE IF toks[index + 1] \in {"pow(", "sqrt("}
                 THEN parse_call(toks, toks[index + 1], index)
          ELSE ParseErr("Unexpected token") : number \in {ParseF64(chars)}} : TRUE :
         chars \in {Chars(toks[index + 1])}} : TRUE

\* The arms "pow(" and "sqrt(" of parse_term: the first argument, then for
\* pow( the "," and the second argument, then the ")"
parse_call(toks, token, index) ==
    CHOOSE out \in
      {IF first.tag # "Ok" THEN first
       ELSE IF first.next >= Len(toks) THEN ParsePanic
       ELSE IF token = "sqrt(" THEN
           IF toks[first.next + 1] # ")"
             THEN ParseErr("Expected ')' after sqrt function")
             ELSE ParseOk(Sqrt(first.expr), first.next + 1)
       ELSE IF toks[first.next + 1] # "," THEN ParseErr("Expected ',' in pow function")
       ELSE CHOOSE call \in
         {IF exponent.tag # "Ok" THEN exponent
          ELSE IF exponent.next >= Len(toks) THEN ParsePanic
          ELSE IF toks[exponent.next + 1] # ")"
                 THEN ParseErr("Expected ')' after pow function")
          ELSE ParseOk(Binary("Pow", first.expr, exponent.expr), exponent.next + 1) :
            exponent \in {parse_expr(toks, first.next + 1)}} : TRUE :
         first \in {parse_expr(toks, index + 1)}} : TRUE

\* while i < tokens.len() { match tokens[i] { "+" | "-" | "*" | "/" => .., _ => break } }
parse_expr_loop(toks, left, i) ==
    IF i < Len(toks) /\ toks[i + 1] \in {"+", "-", "*", "/"} THEN
        CHOOSE out \in
          {IF right.tag # "Ok" THEN right
           ELSE parse_expr_loop(toks, Binary(BinaryKind(toks[i + 1]), left, right.expr),
                                right.next) :
             right \in {parse_term(toks, i + 1)}} : TRUE
    ELSE ParseOk(left, i)

parse_expr(toks, index) ==
    CHOOSE out \in
      {IF first.tag # "Ok" THEN first ELSE parse_expr_loop(toks, first.expr, first.next) :
         first \in {parse_term(toks, index)}} : TRUE

\* let (expr, _) = parse_expr(&tokens, 0)?; Ok(expr)
parse_expression(toks) ==
    CHOOSE out \in {IF parsed.tag = "Ok" THEN ParseOk(parsed.expr, 0) ELSE parsed :
                      parsed \in {parse_expr(toks, 0)}} : TRUE

\* The panic of an evaluation, in the place of its f64.
EvalPanic == [class |-> "panic", sign |-> 1, m |-> <<>>, e |-> 0]

Panicked(x) == x.class = "panic"

\* sqrt(m * 2^e) for m > 0: m is shifted so that the exponent is even and
\* the root has two bits more than the mantissa holds.
SqrtShift(m, e) ==
    Max(0, 2 * (MANTISSA_DIGITS + 2) - BitLen(m))
    + ((e - Max(0, 2 * (MANTISSA_DIGITS + 2) - BitLen(m))) % 2)

SqrtRound(n, root, e) == RoundInt(1, root, BMul(root, root) # n, e)

SqrtOf(n, e) == SqrtRound(n, BSqrt(n), e \div 2)

\* f64::sqrt
FSqrt(x) ==
    CASE IsNaN(x) -> NaN
      [] IsZero(x) -> x
      [] x.sign = -1 -> NaN
      [] x.class = "inf" -> x
      [] OTHER -> SqrtOf(BShl(x.m, SqrtShift(x.m, x.e)), x.e - SqrtShift(x.m, x.e))

\* y is a whole number
IsWhole(y) == y.class = "finite" /\ (y.e >= 0 \/ BLowZero(y.m, 0 - y.e))

\* y is an odd whole number
IsOddWhole(y) ==
    y.class = "finite" /\ y.m # <<>> /\ y.e <= 0 /\ BLowZero(y.m, 0 - y.e)
      /\ BBit(y.m, 0 - y.e) = 1

\* The number of low zero bits of a > 0
TrailingZeros(a) == CHOOSE k \in 0..(BitLen(a) - 1) : BBit(a, k) = 1 /\ BLowZero(a, k)

\* A finite x that is not zero, as m * 2^e with m odd
OddPart(x) == [m |-> BShr(x.m, TrailingZeros(x.m)), e |-> x.e + TrailingZeros(x.m)]

\* <<r>> when n = r^(2^q), <<>> when n is no such power
RECURSIVE TwoPowerRoot(_, _)
TwoPowerRoot(n, q) ==
    IF q = 0 \/ n = <<1>> THEN <<n>>
    ELSE CHOOSE out \in {IF BMul(root, root) = n THEN TwoPowerRoot(root, q - 1) ELSE <<>> :
                           root \in {BSqrt(n)}} : TRUE

\* The natural number below LimbBase^2 that a holds
BToNat(a) == Limb(a, 1) + LimbBase * Limb(a, 2)

\* |x|^y where it is an f64 exactly, as <<value>> with the sign given; <<>>
\* where it is not.  x and y are finite and not zero.  With |x| = r^(2^q) *
\* 2^(b * 2^q), r odd, and |y| = p / 2^q, p a whole number, the power is
\* (r * 2^b)^p or its inverse; it is a binary fraction when r = 1 or y > 0.
PowExactOf(sign, y, root, b, pbits, p) ==
    IF root = <<>> THEN <<>>
    ELSE IF root[1] = <<1>> /\ b = 0 THEN <<RoundInt(sign, <<1>>, FALSE, 0)>>
    ELSE IF pbits > 12 THEN <<>>
    ELSE IF root[1] = <<1>>
      THEN <<RoundInt(sign, <<1>>, FALSE, y.sign * b * p)>>
    ELSE IF y.sign = -1 \/ (BitLen(root[1]) - 1) * p >= MANTISSA_DIGITS THEN <<>>
    ELSE IF /\ BitLen(BPow(root[1], p)) <= MANTISSA_DIGITS
            /\ b * p >= MIN_EXPONENT
            /\ BitLen(BPow(root[1], p)) + b * p <= MAX_EXPONENT + MANTISSA_DIGITS
           THEN <<RoundInt(sign, BPow(root[1], p), FALSE, b * p)>>
    ELSE <<>>

PowExactParts(sign, y, xo, yo, q) ==
    PowExactOf(sign, y,
               IF q > 11 \/ xo.e % (2 ^ Min(q, 11)) # 0 THEN <<>> ELSE TwoPowerRoot(xo.m, q),
               xo.e \div (2 ^ Min(q, 11)),
               BitLen(yo.m) + Max(yo.e, 0),
               BToNat(BShl(yo.m, Max(Min(yo.e, 12), 0))))

PowExact(sign, x, y) ==
    PowExactParts(sign, y, OddPart(x), OddPart(y), Max(0, 0 - OddPart(y).e))

\* Fixed point: an exponent is held with FractionBits bits below the point,
\* a logarithm with LogBits, the number squared for it with SquareBits.
FractionBits == 6 * 14
LogBits == 10 * 14
SquareBits == 11 * 14

ShiftBy(a, k) == IF k >= 0 THEN BShl(a, k) ELSE BShr(a, 0 - k)

\* One bit of a binary logarithm: st.z / 2^SquareBits is in [1, 2), and its
\* square is at or above 2 when the next bit is set.
LogBit(bits, square) ==
    IF BitLen(square) > SquareBits + 1
      THEN [z |-> BShr(square, 1), bits |-> BAdd(BShl(bits, 1), <<1>>)]
      ELSE [z |-> square, bits |-> BShl(bits, 1)]

LogStep(st) ==
    CHOOSE out \in {LogBit(st.bits, square) :
                      square \in {BShr(BMul(st.z, st.z), SquareBits)}} : TRUE

\* n steps; the state after the first half is bound through a set, so that
\* it is computed before the second half is taken up.
RECURSIVE LogSteps(_, _)
LogSteps(st, n) ==
    IF n = 0 THEN st
    ELSE IF n = 1 THEN LogStep(st)
    ELSE CHOOSE out \in {LogSteps(half, n - (n \div 2)) :
                           half \in {LogSteps(st, n \div 2)}} : TRUE

\* floor(log2(m / 2^(BitLen(m) - 1)) * 2^LogBits), less at most 4
Log2Fraction(m) ==
    LogSteps([z |-> BShl(m, SquareBits + 1 - BitLen(m)), bits |-> <<>>], LogBits).bits

\* log2 of a finite x > 0 as sign * v / 2^LogBits, v within 4 of the true one
Log2Signed(top, fraction) ==
    IF top >= 0 THEN [sign |-> 1, v |-> BAdd(BShl(BFromNat(top), LogBits), fraction)]
    ELSE [sign |-> -1, v |-> BSub(BShl(BFromNat(0 - top), LogBits), fraction)]

Log2(x) == Log2Signed(x.e + BitLen(x.m) - 1, Log2Fraction(x.m))

\* floor(ln(2) * 2^FractionBits)
Ln2 == <<7739, 10994, 3961, 8007, 8575, 11356>>

\* The series of e^z, z < ln(2): st.term is z^(n-1) / (n-1)!
ExpTerm(st, z) ==
    IF st.term = <<>> THEN st
    ELSE CHOOSE out \in {[sum |-> BAdd(st.sum, term), term |-> term, n |-> st.n + 1] :
                           term \in {BDivMod(BShr(BMul(st.term, z), FractionBits),
                                             <<st.n>>).q}} : TRUE

RECURSIVE ExpTerms(_, _, _)
ExpTerms(st, z, n) ==
    IF n = 0 THEN st
    ELSE IF n = 1 THEN ExpTerm(st, z)
    ELSE CHOOSE out \in {ExpTerms(half, z, n - (n \div 2)) :
                           half \in {ExpTerms(st, z, n \div 2)}} : TRUE

\* 2^(f / 2^FractionBits) * 2^FractionBits for f < 2^FractionBits: the true
\* one is at or above this and at most ExpSlack above it.
Exp2Fraction(f) ==
    ExpTerms([sum |-> BShl(<<1>>, FractionBits), term |-> BShl(<<1>>, FractionBits), n |-> 1],
             BShr(BMul(f, Ln2), FractionBits), 32).sum

ExpSlack == <<1024>>

\* 2^(sign * u / 2^FractionBits) as [r, e], standing for r * 2^e: a bound
\* from below, or with upper a bound from above that the power stays under.
Exp2Parts(sign, whole, f, upper) ==
    IF f = <<>>
      THEN [r |-> IF upper THEN BSub(BShl(<<1>>, FractionBits), <<1>>)
                  ELSE BShl(<<1>>, FractionBits),
            e |-> sign * whole - FractionBits]
      ELSE [r |-> BAdd(Exp2Fraction(IF sign = 1 THEN f
                                    ELSE BSub(BShl(<<1>>, FractionBits), f)),
                       IF upper THEN ExpSlack ELSE <<>>),
            e |-> (IF sign = 1 THEN whole ELSE 0 - whole - 1) - FractionBits]

Exp2(sign, u, upper) ==
    Exp2Parts(sign, BToNat(BShr(u, FractionBits)),
              BSub(u, BShl(BShr(u, FractionBits), FractionBits)), upper)

\* The f64 next below and next above n * 2^e, n > 0; zero alone when it is
\* under half the least f64 above zero.
FloorCeilAt(sign, n, e, k) ==
    {Pack(sign, BShr(n, k), e + k), Pack(sign, BAdd(BShr(n, k), <<1>>), e + k)}

FloorCeil(sign, n, e) ==
    IF BitLen(n) + e < MIN_EXPONENT THEN {Zero(sign)}
    ELSE FloorCeilAt(sign, n, e, Max(BitLen(n) - MANTISSA_DIGITS, MIN_EXPONENT - e))

\* The f64 next to 2^(tsign * t), t within [a, b] / 2^FractionBits
PowBetween(sign, tsign, a, b) ==
    IF BitLen(a) > FractionBits + 12 THEN {IF tsign = 1 THEN Inf(sign) ELSE Zero(sign)}
    ELSE LET lo == Exp2(tsign, IF tsign = 1 THEN a ELSE b, FALSE)
             hi == Exp2(tsign, IF tsign = 1 THEN b ELSE a, TRUE)
         IN  FloorCeil(sign, lo.r, lo.e) \cup FloorCeil(sign, hi.r, hi.e)

\* t = |y * log2(x)| * 2^FractionBits lies within slack of product
PowAround(sign, tsign, product, slack) ==
    PowBetween(sign, tsign,
               IF BCmp(product, slack) > 0 THEN BSub(product, slack) ELSE <<>>,
               BAdd(product, slack))

PowOfLog(sign, y, log) ==
    PowAround(sign, log.sign * y.sign,
              ShiftBy(BMul(log.v, y.m), y.e + FractionBits - LogBits),
              BAdd(ShiftBy(BMulSmall(y.m, 4), y.e + FractionBits - LogBits), <<2>>))

\* |x|^y where it is not an f64 exactly: libm's pow returns an f64 next to
\* it, the nearest one or the one on the other side.
PowInexact(sign, x, y) ==
    CHOOSE out \in {PowOfLog(sign, y, log) : log \in {Log2(x)}} : TRUE

PowFinite(sign, x, y) ==
    CHOOSE out \in {IF exact # <<>> THEN {exact[1]} ELSE PowInexact(sign, x, y) :
                      exact \in {PowExact(sign, x, y)}} : TRUE

\* f64::powf: the set of the values it can return.  The cases of zero,
\* infinity and not-a-number are those of pow in C.
FPow(x, y) ==
    CASE IsZero(y) -> {Fin(1, 1, 1)}
      [] x = Fin(1, 1, 1) -> {Fin(1, 1, 1)}
      [] IsNaN(x) \/ IsNaN(y) -> {NaN}
      [] y.class = "inf" ->
           IF MagnitudeCmp(x, Fin(1, 1, 1)) = 0 THEN {Fin(1, 1, 1)}
           ELSE IF (MagnitudeCmp(x, Fin(1, 1, 1)) < 0) = (y.sign = -1) THEN {Inf(1)}
           ELSE {Zero(1)}
      [] IsZero(x) ->
           IF y.sign = -1 THEN {Inf(IF IsOddWhole(y) THEN x.sign ELSE 1)}
           ELSE {Zero(IF IsOddWhole(y) THEN x.sign ELSE 1)}
      [] x.class = "inf" ->
           IF y.sign = -1 THEN {Zero(IF IsOddWhole(y) THEN x.sign ELSE 1)}
           ELSE {Inf(IF IsOddWhole(y) THEN x.sign ELSE 1)}
      [] x.sign = -1 /\ ~IsWhole(y) -> {NaN}
      [] OTHER -> PowFinite(IF x.sign = -1 /\ IsOddWhole(y) THEN -1 ELSE 1, x, y)

\* a (+, -, *, powf) b, after both operands have been evaluated: the values
\* it can give
Arith(kind, a, b) ==
    IF Panicked(a) \/ Panicked(b) THEN {EvalPanic}
    ELSE CASE kind = "Add" -> {FAdd(a, b)}
           [] kind = "Sub" -> {FSub(a, b)}
           [] kind = "Mul" -> {FMul(a, b)}
           [] kind = "Pow" -> FPow(a, b)

\* The values an evaluation can give.  inputs is [f64; 5]: inputs[index]
\* panics for index >= 5.  Div evaluates the divisor first and does not
\* evaluate the dividend when it is 0.0.
RECURSIVE evaluate(_, _)
evaluate(expr, inputs) ==
    CASE expr.kind = "Div" ->
           UNION {IF Panicked(divisor) THEN {EvalPanic}
                  ELSE IF ~IsZero(divisor)
                         THEN {IF Panicked(dividend) THEN EvalPanic
                               ELSE FDiv(dividend, divisor) :
                                 dividend \in evaluate(expr.a, inputs)}
                  ELSE {NaN} :
                    divisor \in evaluate(expr.b, inputs)}
      [] expr.kind = "Sqrt" ->
           {IF Panicked(a) THEN EvalPanic ELSE FSqrt(a) : a \in evaluate(expr.a, inputs)}
      [] expr.kind = "Var" ->
           {IF expr.index < Len(inputs) THEN inputs[expr.index + 1] ELSE EvalPanic}
      [] expr.kind = "Const" -> {expr.value}
      [] OTHER ->
           UNION {Arith(expr.kind, a, b) :
                    a \in evaluate(expr.a, inputs), b \in evaluate(expr.b, inputs)}

\* return 10000.0; // return max fitness for invalid expression
INVALID_EXPRESSION_FITNESS == 10000

\* let error = predicted_value - y; total_error += error * error;
AddSquaredError(total_error, predicted_value, y) ==
    IF Panicked(predicted_value) THEN [returned |-> TRUE, total_error |-> EvalPanic]
    ELSE [returned |-> FALSE,
          total_error |-> FAdd(total_error, FMul(FSub(predicted_value, y),
                                                 FSub(predicted_value, y)))]

\* One pass of the for loop of calculate_mse: before is the state the pass
\* starts in, parsed the result of parse_expression(expression).  The states
\* it can end in.
MseRow(before, parsed, row) ==
    IF before.returned THEN {before}
    ELSE IF parsed.tag = "Panic" THEN {[returned |-> TRUE, total_error |-> EvalPanic]}
    ELSE IF parsed.tag = "Err"
           THEN {[returned |-> TRUE, total_error |-> Fin(1, INVALID_EXPRESSION_FITNESS, 1)]}
    ELSE {AddSquaredError(before.total_error, predicted_value, row.y) :
            predicted_value \in evaluate(parsed.expr, row.x)}

\* The passes over the rows lo..hi of data, from any of states; once every
\* state has returned, the rows left change nothing.
RECURSIVE MseRows(_, _, _, _, _)
MseRows(parsed, data, states, lo, hi) ==
    IF lo > hi \/ \A st \in states : st.returned THEN states
    ELSE IF lo = hi THEN UNION {MseRow(st, parsed, data[lo]) : st \in states}
    ELSE CHOOSE out \in {MseRows(parsed, data, half, ((lo + hi) \div 2) + 1, hi) :
                           half \in {MseRows(parsed, data, states, lo, (lo + hi) \div 2)}} : TRUE

\* calculate_mse: the for loop over the first k rows of data.  A state is
\* the running total_error, the early return of the Err arm, or the panic.
VladTotalError(toks, data, k) ==
    CHOOSE out \in {MseRows(parsed, data,
                            {[returned |-> FALSE, total_error |-> Fin(1, 0, 1)]}, 1, k) :
                      parsed \in {parse_expression(toks)}} : TRUE

\* let mse = total_error / data.len() as f64
MeanSquaredError(loop, samples) ==
    IF loop.returned THEN loop.total_error
    ELSE FDiv(loop.total_error, Fin(1, samples, 1))

\* evaluate_fitness of the example: the mean squared error over data, or
\* 10000.0 for an expression that does not parse; the values it can return.
vlad_evaluate_fitness(toks, data) ==
    {MeanSquaredError(loop, Len(data)) : loop \in VladTotalError(toks, data, Len(data))}

\* 10.0 / (5.0 + (x[0]-3.0).powi(2) + .. + (x[4]-3.0).powi(2))
RECURSIVE SumSquaresFrom3(_, _)
SumSquaresFrom3(x, k) ==
    IF k = 0 THEN Fin(1, 5, 1)
    ELSE LET diff == FSub(x[k], Fin(1, 3, 1))
         IN  FAdd(SumSquaresFrom3(x, k - 1), FMul(diff, diff))

vladislavleva4(x) == FDiv(Fin(1, 10, 1), SumSquaresFrom3(x, 5))

-----------------------------------------------------------------------------
(* map_genome_to_expression of the vladislavleva4 example.                  *)

\* A grammar file as read_grammar_from_file yields it: rule name ->
\* expansions, each the parts split_whitespace() yields.
VLAD_GRAMMAR ==
    [Expr  |-> << <<"Var">>, <<"Const">>, <<"Expr", "Op", "Expr">> >>,
     Op    |-> << <<"+">>, <<"-">>, <<"*">>, <<"/">> >>,
     Var   |-> << <<"x[0]">>, <<"x[1]">> >>,
     Const |-> << <<"1.0">>, <<"2.0">>, <<"0.0">> >>]

RECURSIVE map_rule_to_expression(_, _, _, _, _), MapParts(_, _, _, _, _)

\* for part in selected_expansion.iter() { .. }: st = [expression, index]
MapParts(st, parts, k, g, grammar) ==
    IF k > Len(parts) THEN st
    ELSE IF parts[k] \in DOMAIN grammar
           THEN MapParts(map_rule_to_expression(st.expression, parts[k], g, st.index, grammar),
                         parts, k + 1, g, grammar)
           ELSE MapParts([st EXCEPT !.expression = Append(st.expression, parts[k])],
                         parts, k + 1, g, grammar)

\* Returns the expression written so far and the next index.
map_rule_to_expression(expression, rule, g, index, grammar) ==
    IF index >= Len(g) THEN [expression |-> expression, index |-> index]
    ELSE IF rule \in DOMAIN grammar THEN
        LET expansions == grammar[rule]
            choice == g[index + 1] % Len(expansions)
        IN  MapParts([expression |-> expression, index |-> index + 1],
                     expansions[choice + 1], 1, g, grammar)
    ELSE [expression |-> Append(expression, rule), index |-> index + 1]

map_genome_to_expression(g, grammar) ==
    map_rule_to_expression(<<>>, "Expr", g, 0, grammar).expression

-----------------------------------------------------------------------------
(* SpecRun: run_algorithm of the vladislavleva4 example.                    *)

\* let population_size = 100;
population_size == 100
\* let max_genome_length = 100;
max_genome_length == 100
\* let mutation_probability = 0.01;
mutation_probability == Fin(1, 1, 100)
\* let crossover_probability = 0.9;
crossover_probability == Fin(1, 9, 10)
\* let max_generations = 20;
max_generations == 20
\* let tournament_size = 3;
tournament_size == 3
\* let max_gene_value = 255;
max_gene_value == 255

\* rand::random::<f64>(): a multiple of 2^-53 in [0, 1); the draws followed
\* are the multiples of 1/128
RandomF64(raw) == Fin(1, raw % 128, 128)

\* rng.gen_range(low..high) on f64: a draw of [0, 1) scaled to the range
gen_range(value0_1, low, high) == FAdd(FMul(value0_1, FSub(high, low)), low)

\* The raw values the generator of generate_dataset yields, read cyclically.
DatasetTape == <<41, 102, 8, 77, 120, 3, 64, 19, 90, 55, 110>>

\* The values gen_range(range.0..range.1) gives for the draws of DatasetTape.
DatasetDraws(range) ==
    Evaluated([i \in 1..Len(DatasetTape) |->
                  gen_range(RandomF64(DatasetTape[i]), range[1], range[2])])

\* The row the pass k of `for _ in 0..samples` pushes: five draws, then
\* y = vladislavleva4(&x).
DatasetRow(drawn, k) ==
    CHOOSE row \in {[x |-> x, y |-> vladislavleva4(x)] :
                      x \in {Evaluated([j \in 1..5 |->
                                drawn[((5 * (k - 1) + j - 1) % Len(drawn)) + 1]])}} : TRUE

generate_dataset(samples, range) ==
    CHOOSE dataset \in {Evaluated([k \in 1..samples |-> DatasetRow(drawn, k)]) :
                          drawn \in {DatasetDraws(range)}} : TRUE

\* let training_data = generate_dataset(1024, (0.05, 6.05));
training_samples == 1024

training_data == generate_dataset(training_samples, <<Fin(1, 5, 100), Fin(1, 605, 100)>>)

\* population_mgmt::random_initialization draws population_size genomes of
\* max_genome_length genes each; the populations drawn here repeat a few
\* genomes, each a short head followed by genes 0.
VladSeeds ==
    { << <<1, 0>>, <<0, 1>>, <<0, 0>>, <<1, 1>> >>,
      << <<0, 0>>, <<2, 1, 0, 3, 1, 2>>, <<1, 1>>, <<0, 1>> >> }

InitialGenome(seed) ==
    [j \in 1..max_genome_length |-> IF j <= Len(seed) THEN seed[j] ELSE 0]

InitialPopulation(seeds) ==
    [i \in 1..population_size |-> InitialGenome(seeds[((i - 1) % Len(seeds)) + 1])]

VladTapes ==
    { <<1>>, <<50, 0, 101, 100, 200>> }

\* The expression strings the runs followed evaluate, and a product.
KnownExpressions ==
    << <<"1.0">>, <<"2.0">>, <<"x[0]">>, <<"x[1]">>, <<"1.0", "/", "0.0">>,
       <<"x[0]", "*", "x[0]", "*", "x[0]", "*", "x[0]">> >>

\* evaluate_fitness(expression, &training_data) of each of them: the values
\* the call can return.
KnownFitness ==
    Evaluated([i \in 1..Len(KnownExpressions) |->
                  vlad_evaluate_fitness(KnownExpressions[i], training_data)])

\* evaluate_fitness(expression, data) for data the first samples rows of
\* training_data: the values the call can return.
TrainingFitness(expression, samples) ==
    IF /\ samples = training_samples
       /\ \E i \in 1..Len(KnownExpressions) : KnownExpressions[i] = expression
      THEN KnownFitness[CHOOSE i \in 1..Len(KnownExpressions) :
                            KnownExpressions[i] = expression]
      ELSE CHOOSE out \in {vlad_evaluate_fitness(expression, data) :
                             data \in {SubSeq(training_data, 1, samples)}} : TRUE

\* for (i, individual) in population.iter().enumerate() { fitness_values[i] =
\* evaluate_fitness(..) }: the vectors of values the passes lo..hi can give,
\* outcomes[i] being the values the call for individual i can return.
RECURSIVE FitnessLoop(_, _, _)
FitnessLoop(outcomes, lo, hi) ==
    IF lo > hi THEN {<<>>}
    ELSE IF lo = hi THEN {<<value>> : value \in outcomes[lo]}
    ELSE {head \o tail : head \in FitnessLoop(outcomes, lo, (lo + hi) \div 2),
                         tail \in FitnessLoop(outcomes, ((lo + hi) \div 2) + 1, hi)}

\* An f64 fitness as tournament_selection compares it.  A mean squared error
\* is not negative; a finite one is held by the number of fitness values
\* below it, which keeps the order of the values.
Ranked(fitness_values) ==
    [i \in 1..Len(fitness_values) |->
        CASE IsNaN(fitness_values[i]) -> NAN
          [] fitness_values[i].class = "inf" -> INFINITY
          [] OTHER -> Finite(Cardinality({j \in 1..Len(fitness_values) :
                                             FLt(fitness_values[j], fitness_values[i])}))]

\* fitness_values.iter().enumerate().min_by(|a, b| a.1.partial_cmp(b.1).unwrap()):
\* the unwrap panics when a not-a-number value is compared
MinByPanics(fitness_values) ==
    /\ Len(fitness_values) >= 2
    /\ \E i \in 1..Len(fitness_values) : IsNaN(fitness_values[i])

\* Iterator::min_by returns the first of several minima (index from 0)
MinBy(fitness_values) ==
    (CHOOSE i \in 1..Len(fitness_values) :
        /\ \A j \in 1..Len(fitness_values) : ~FLt(fitness_values[j], fitness_values[i])
        /\ \A j \in 1..(i - 1) : FLt(fitness_values[i], fitness_values[j])) - 1

\* if rand::random::<f64>() < mutation_probability { mutate(individual,
\* max_gene_value); } for the k-th individual of new_population
MutationPass(st, k) ==
    IF FLt(RandomF64(Draw(st.rng, 0)), mutation_probability)
      THEN [population |-> [st.population EXCEPT
                               ![k] = mutate(st.population[k],
                                             Draw(st.rng, 1) % Len(st.population[k]),
                                             Draw(st.rng, 2) % max_gene_value)],
            rng |-> Advance(st.rng, 3)]
      ELSE [st EXCEPT !.rng = Advance(st.rng, 1)]

\* for individual in new_population.iter_mut() { .. }: the passes lo..hi
RECURSIVE MutationLoop(_, _, _)
MutationLoop(st, lo, hi) ==
    IF lo > hi THEN st
    ELSE IF lo = hi THEN CHOOSE out \in {MutationPass(st, lo)} : TRUE
    ELSE CHOOSE out \in {MutationLoop(half, ((lo + hi) \div 2) + 1, hi) :
                           half \in {MutationLoop(st, lo, (lo + hi) \div 2)}} : TRUE

\* fitness_values.iter().sum::<f64>(): sum is the sum of the values before
\* lo, the values lo..hi are added in order
RECURSIVE SumF64(_, _, _, _)
SumF64(values, sum, lo, hi) ==
    IF lo > hi THEN sum
    ELSE IF lo = hi THEN FAdd(sum, values[lo])
    ELSE CHOOSE out \in {SumF64(values, half, ((lo + hi) \div 2) + 1, hi) :
                           half \in {SumF64(values, sum, lo, (lo + hi) \div 2)}} : TRUE

\* One pass of `while new_population.len() < population_size`: two
\* tournaments, then the two children or the two parents are pushed.
BreedPass(st, pop, ranked) ==
    LET n       == Len(pop)
        parent1 == pop[vlad_tournament_selection(ranked, Draw(st.rng, 0) % n,
                       [k \in 1..tournament_size |-> Draw(st.rng, k) % n]) + 1]
        parent2 == pop[vlad_tournament_selection(ranked,
                       Draw(st.rng, tournament_size + 1) % n,
                       [k \in 1..tournament_size |->
                           Draw(st.rng, tournament_size + 1 + k) % n]) + 1]
        used    == 2 * (tournament_size + 1)
    IN  IF FLt(RandomF64(Draw(st.rng, used)), crossover_probability)
          THEN LET children == one_point_crossover(parent1, parent2,
                                   Draw(st.rng, used + 1) % Len(parent1))
               IN  [new_population |->
                        st.new_population \o <<children.child1, children.child2>>,
                    rng |-> Advance(st.rng, used + 2)]
          ELSE [new_population |-> st.new_population \o <<parent1, parent2>>,
                rng |-> Advance(st.rng, used + 1)]

\* Every pass pushes two genomes: the passes the loop makes from new_population
BreedPasses(new_pop) ==
    IF Len(new_pop) < population_size
      THEN (population_size - Len(new_pop) + 1) \div 2 ELSE 0

\* while new_population.len() < population_size { .. }: the passes lo..hi
RECURSIVE BreedLoop(_, _, _, _, _)
BreedLoop(st, pop, ranked, lo, hi) ==
    IF lo > hi THEN st
    ELSE IF lo = hi THEN CHOOSE out \in {BreedPass(st, pop, ranked)} : TRUE
    ELSE CHOOSE out \in {BreedLoop(half, pop, ranked, ((lo + hi) \div 2) + 1, hi) :
                           half \in {BreedLoop(st, pop, ranked, lo, (lo + hi) \div 2)}} : TRUE

RunInit ==
    /\ program = "vladislavleva4"
    /\ \E seeds \in VladSeeds : population = InitialPopulation(seeds)
    /\ run_fitness_values = [i \in 1..population_size |-> Fin(1, 0, 1)]
    /\ \E tape \in VladTapes : rng = [tape |-> tape, pos |-> 0]
    /\ new_population = <<>>
    /\ current_best = <<>>
    /\ generation = 0
    /\ epc = "evaluating"
    /\ best_genome = Idle /\ best_fitness = Idle
    /\ fitness = Idle /\ sorted_population = Idle /\ tournaments = Idle
    /\ MapIdle /\ BoolIdle /\ OpIdle

\* Lines 263-272: the fitness of every individual, the best of the generation.
RunEvaluate ==
    /\ epc = "evaluating"
    /\ generation < max_generations
    /\ \E expressions \in {Evaluated([i \in 1..Len(population) |->
                               map_genome_to_expression(population[i], VLAD_GRAMMAR)])} :
       \E outcomes \in {Evaluated([i \in 1..Len(population) |->
                               TrainingFitness(expressions[i], training_samples)])} :
       \E values \in FitnessLoop(outcomes, 1, Len(population)) :
          IF \/ Len(population) > Len(run_fitness_values)
             \/ \E i \in 1..Len(population) : Panicked(values[i])
             \/ MinByPanics(values)
            THEN /\ epc' = "panicked"
                 /\ UNCHANGED <<run_fitness_values, current_best, new_population>>
            ELSE \E current_best_index \in {MinBy(values)} :
                 /\ run_fitness_values' = values
                 /\ current_best' =
                        <<[index |-> current_best_index,
                           fitness |-> values[current_best_index + 1],
                           expression |-> expressions[current_best_index + 1]]>>
                 /\ new_population' = <<>>
                 /\ epc' = "breeding"
    /\ UNCHANGED <<population, rng, generation, fitness, sorted_population, tournaments>>
    /\ UNCHANGED <<program, best_genome, best_fitness>>
    /\ UNCHANGED <<mapVars, boolVars, opVars>>

\* Lines 276-286: the while loop that fills new_population.
RunBreed ==
    /\ epc = "breeding"
    /\ \E ranked \in {Evaluated(Ranked(run_fitness_values))} :
       \E bred \in {BreedLoop([new_population |-> new_population, rng |-> rng],
                              population, ranked, 1, BreedPasses(new_population))} :
          /\ new_population' = bred.new_population
          /\ rng' = bred.rng
    /\ epc' = "mutating"
    /\ UNCHANGED <<population, generation, fitness, sorted_population, tournaments>>
    /\ UNCHANGED <<mapVars, boolVars, opVars, runVars>>

\* Lines 288-294: the mutation loop, then population = new_population.
RunMutate ==
    /\ epc = "mutating"
    /\ \E mutated \in {MutationLoop([population |-> new_population, rng |-> rng],
                                    1, Len(new_population))} :
          /\ population' = mutated.population
          /\ rng' = mutated.rng
    /\ new_population' = <<>>
    /\ generation' = generation + 1
    /\ epc' = "evaluating"
    /\ UNCHANGED <<fitness, sorted_population, tournaments>>
    /\ UNCHANGED <<mapVars, boolVars, opVars, runVars>>

\* Lines 297-304, after the last generation.
RunReturn ==
    /\ epc = "evaluating"
    /\ generation = max_generations
    /\ IF MinByPanics(run_fitness_values)
         THEN epc' = "panicked" /\ ret' = ret
         ELSE \E best_index \in {MinBy(run_fitness_values)} :
                  /\ ret' = [best_fitness |-> run_fitness_values[best_index + 1],
                             avg_fitness |-> FDiv(SumF64(run_fitness_values, Fin(-1, 0, 1),
                                                         1, Len(run_fitness_values)),
                                                  Fin(1, population_size, 1)),
                             best_expression |->
                                 map_genome_to_expression(population[best_index + 1],
                                                          VLAD_GRAMMAR)]
                  /\ epc' = "returned"
    /\ UNCHANGED <<op, args, draws>>
    /\ UNCHANGED <<population, fitness, rng, sorted_population, new_population,
                   tournaments, generation>>
    /\ UNCHANGED <<mapVars, boolVars, runVars>>

RunNext == RunEvaluate \/ RunBreed \/ RunMutate \/ RunReturn

SpecRun == RunInit /\ [][RunNext]_vars

\* C12: at termination run_algorithm reports the all-time-best genome's
\* phenotype together with its own fitness: the returned best expression is
\* the phenotype of a genome of the final population whose evaluated fitness
\* is the returned best fitness.
C12_ReturnsBestWithItsFitness ==
    epc = "returned" =>
        \E i \in 1..Len(population) :
            /\ map_genome_to_expression(population[i], VLAD_GRAMMAR) = ret.best_expression
            /\ ret.best_fitness \in TrainingFitness(ret.best_expression, training_samples)

\* C13: an invalid individual never aborts a run: with individuals whose
\* phenotype does not parse or whose fitness is not-a-number in the
\* population, the evaluation and the best-of-generation selection complete
\* and the loop goes on to the next generation.
C13_InvalidNeverAborts ==
    program = "vladislavleva4" => epc # "panicked"

-----------------------------------------------------------------------------
(* SpecCalls: one call of parse_expression, of map_genome_to_expression or  *)
(* of the evaluate_fitness of an example.                                   *)

MaxParseLen == 3
MaxExprGenomeLen == 4

ParseTokens ==
    {"x[1]", "x[", "x[a]", "4", "1e5", "inf", "+", "pow(", "sqrt(", ",", ")", "Expr"}

\* Longer expression strings: the functions written out in full, and cut off.
ParseSamples ==
    { <<"pow(", "x[1]", ",", "2.0", ")">>,
      <<"pow(", "x[1]", ",", "2.0">>,
      <<"pow(", "x[1]", "+", "1.0", ",", "2.0", ")", "-", "sqrt(", "4", ")">>,
      <<"sqrt(", "x[0]", "*", "x[0]", ")">>,
      <<"sqrt(", "x[0]", "*", "x[0]">>,
      <<"x[0]", "*", "x[0]", "*", "x[0]", "*", "x[0]">>,
      <<"x[0]", "/", "0.0">>,
      <<"0.5", "*", "x[7]">>,
      <<"-1", "-", ".">>,
      <<"1E2", "*", "1e-3">>,
      <<"-inf", "+", "+inf">>,
      <<"infinity", "-", "x[0]">>,
      <<"NaN">>,
      <<"nan", "*", "0.0">>,
      <<"pow(", "x[0]", ",", "0.5", ")">>,
      <<"pow(", "0.5", ",", "x[1]", ")">>,
      <<"pow(", "2.0", ",", "inf", ")">>,
      <<"pow(", "0.0", "-", "x[0]", ",", "0.5", ")">> }

ParseInputs == SeqsUpTo(ParseTokens, MaxParseLen) \cup ParseSamples

ExprGenomes == SeqsUpTo(0..3 \cup {MAX_GENE_VALUE}, MaxExprGenomeLen) \ {<<>>}

\* The expression strings scored: those of ParseSamples, and phenotypes.
VladExpressions ==
    ParseSamples \cup {<<"x[0]">>, <<"x[1]">>, <<"1.0">>, <<"x[0]", "/", "x[1]">>,
                       <<"x[0]", "+">>, <<"Expr">>, <<>>}

\* The rows scored: the first samples rows of training_data, a few of them
\* for every expression and all of them for the expressions of the runs.
MaxFitnessRows == 3

FitnessSamples(toks) ==
    (1..MaxFitnessRows) \cup
        (IF \E i \in 1..Len(KnownExpressions) : KnownExpressions[i] = toks
           THEN {training_samples} ELSE {})

\* Genomes of the regression example: a derivation that ends ("1.0", "x",
\* "y"), and one that only ever expands E -> E + T and so runs into the cap.
RegressionGenomes ==
    { <<0, 2, 2, 3, 0, 1, 0, 3, 4, 2>>, <<0, 2, 2, 0, 0, 0, 0, 0, 0, 0>>,
      <<0, 2, 2, 1, 0, 0, 0, 0, 0, 0>>, <<0, 0, 0, 0, 0, 0, 0, 0, 0, 0>> }

CallsInit == OpInit

CallParseExpression ==
    /\ op = "none"
    /\ \E toks \in ParseInputs :
          /\ op' = "parse_expression"
          /\ args' = [expr_str |-> toks]
          /\ ret' = parse_expression(toks)
    /\ UNCHANGED draws
    /\ UNCHANGED <<mapVars, boolVars, evolveVars, runVars>>

CallMapGenomeToExpression ==
    /\ op = "none"
    /\ \E g \in ExprGenomes :
          /\ op' = "map_genome_to_expression"
          /\ args' = [genome |-> g]
          /\ ret' = map_genome_to_expression(g, VLAD_GRAMMAR)
    /\ UNCHANGED draws
    /\ UNCHANGED <<mapVars, boolVars, evolveVars, runVars>>

\* evaluate_fitness of the parity example
CallParityFitness ==
    /\ op = "none"
    /\ \E toks \in BoolInputs :
          /\ op' = "parity::evaluate_fitness"
          /\ args' = [expression |-> toks]
          /\ ret' = parity_evaluate_fitness(toks)
    /\ UNCHANGED draws
    /\ UNCHANGED <<mapVars, boolVars, evolveVars, runVars>>

\* evaluate_fitness of the vladislavleva4 example
CallVladFitness ==
    /\ op = "none"
    /\ \E toks \in VladExpressions :
       \E samples \in FitnessSamples(toks) :
       \E mse \in TrainingFitness(toks, samples) :
          /\ op' = "vladislavleva4::evaluate_fitness"
          /\ args' = [expression |-> toks, samples |-> samples]
          /\ ret' = mse
    /\ UNCHANGED draws
    /\ UNCHANGED <<mapVars, boolVars, evolveVars, runVars>>

\* evaluate_fitness of the regression example, on the phenotype main maps
\* from a genome
CallRegressionFitness ==
    /\ op = "none"
    /\ \E g \in RegressionGenomes :
       \E mapped \in {Phenotype("regression", g)} :
          /\ op' = "regression::evaluate_fitness"
          /\ args' = [genome |-> g, expression |-> mapped.tokens, pc |-> mapped.pc]
          /\ ret' = regression_evaluate_fitness(mapped.tokens, RegressionData)
    /\ UNCHANGED draws
    /\ UNCHANGED <<mapVars, boolVars, evolveVars, runVars>>

CallsNext ==
    \/ CallParseExpression
    \/ CallMapGenomeToExpression
    \/ CallParityFitness
    \/ CallVladFitness
    \/ CallRegressionFitness

SpecCalls == CallsInit /\ [][CallsNext]_vars

\* C14: for every whitespace-tokenised input (the empty string, input ending
\* right after an operator, input ending inside pow( or sqrt(, variable
\* tokens such as "x[" or "x[a]") parse_expression returns Ok or Err; it
\* never panics.
C14_ParseNeverPanics ==
    op = "parse_expression" => ret.tag \in {"Ok", "Err"}

\* match evaluate_postfix(..) { .. None => false }: the score of a phenotype
\* on which evaluate_expression is false for every combination.
ParitySentinel ==
    Cardinality({i \in 1..Len(Combinations) :
        ~Xor3(Combinations[i][1], Combinations[i][2], Combinations[i][3])})

\* The fitness main gives the well-formed phenotype "1.0".
RegressionConstantFitness == regression_evaluate_fitness(<<"1.0">>, RegressionData)

\* C15: every fitness function gives an unparseable, malformed or
\* incomplete-derivation phenotype one fixed sentinel score that is the worst
\* for its direction, and no well-formed phenotype scores strictly worse:
\* the boolean match count of a well-formed expression is not below the
\* sentinel count, the mean squared error of an expression that parses is
\* not above 10000.0, and the 1/(1+mse) of a phenotype cut off by the step
\* cap is not above that of a well-formed one.
C15_SentinelIsWorst ==
    /\ op = "parity::evaluate_fitness" =>
          /\ MalformedPostfix(infix_to_postfix(args.expression)) => ret = ParitySentinel
          /\ WellFormedInfix(args.expression) => ret >= ParitySentinel
    /\ op = "vladislavleva4::evaluate_fitness" =>
          /\ parse_expression(args.expression).tag = "Err"
                => ret = Fin(1, INVALID_EXPRESSION_FITNESS, 1)
          /\ (parse_expression(args.expression).tag = "Ok" /\ ~Panicked(ret))
                => ~FLt(Fin(1, INVALID_EXPRESSION_FITNESS, 1), ret)
    /\ (op = "regression::evaluate_fitness" /\ args.pc = "capped")
          => ~FLt(RegressionConstantFitness, ret)

\* The number of expansions followed in the derivation C18 compares with.
DerivationFuel == 12

\* C18: map_genome_to_expression reuses codons cyclically: whenever the
\* leftmost derivation from Expr whose k-th expansion uses
\* genome[k mod len(genome)] ends, the returned expression is its sentence,
\* and never a derivation cut short because the codons ran out.
C18_ReusesCodonsCyclically ==
    op = "map_genome_to_expression" =>
        LET form == LeftmostDerivation(VLAD_GRAMMAR, args.genome, <<"Expr">>, 0, DerivationFuel)
        IN  (\A i \in 1..Len(form) : form[i] \notin DOMAIN VLAD_GRAMMAR) => ret = form

-----------------------------------------------------------------------------
(* SpecPrecondition: one call of a library function on arguments that may   *)
(* break its precondition (an empty population, a tournament of size 0, an  *)
(* empty genome). The call returns a value or panics.                       *)

Returned(value) == [tag |-> "Returned", value |-> value]

\* rng.gen_range(lo..hi) panics when the range is empty.
EmptyRange(lo, hi) == lo >= hi

\* The draws one call of tournament_selection makes: one for the initial
\* best, one per pass of `for _ in 1..tournament_size`.
TournamentDraws(t_size) == IF t_size >= 1 THEN t_size ELSE 1

\* tournament_selection of evolutionary_ops.rs on any arguments; raws are the
\* values the random source gives, in order.
TournamentSelectionCall(pop, t_size, raws) ==
    IF EmptyRange(0, Len(pop)) THEN Panic
    ELSE Returned(pop[tournament_selection(pop, t_size,
                        [k \in 1..Len(raws) |-> GenRange(raws[k], 0, Len(pop))]) + 1])

\* one_point_crossover on any two parents
OnePointCrossoverCall(parent1, parent2, raw) ==
    IF EmptyRange(0, Min(Len(parent1), Len(parent2))) THEN Panic
    ELSE Returned(one_point_crossover(parent1, parent2,
                      GenRange(raw, 0, Min(Len(parent1), Len(parent2)))))

\* mutate on any genome
MutateCall(g, raw_index, raw_value) ==
    IF EmptyRange(0, Len(g)) THEN Panic
    ELSE Returned(mutate(g, GenRange(raw_index, 0, Len(g)), GenRange(raw_value, 0, MUTATION_RANGE)))

\* map_genome_to_phenotype of grammar.rs on any genome: the first pass pops
\* "S", which has productions, and computes genome_index % genome.len(), a
\* remainder by zero (a panic) when the genome is empty.
MapGenomeCall(g) ==
    IF "S" \in DOMAIN GRAMMAR("library") /\ Len(g) = 0 THEN Panic
    ELSE Returned(map_genome_to_phenotype("library", g))

AnyGenomes == OpGenomes \cup {<<>>}

AnyPopulations == {<<>>} \cup UNION {[1..n -> TournamentGenomes \cup {<<>>}] : n \in 1..MaxTournamentPop}

RawValues == {0, 1, 2, MUTATION_RANGE}

PreconditionInit == OpInit

TryTournamentSelection ==
    /\ op = "none"
    /\ \E pop \in AnyPopulations, t_size \in 0..MaxTournamentSize :
         \E raws \in [1..TournamentDraws(t_size) -> RawValues] :
            /\ op' = "tournament_selection"
            /\ args' = [population |-> pop, tournament_size |-> t_size]
            /\ draws' = raws
            /\ ret' = TournamentSelectionCall(pop, t_size, raws)
    /\ UNCHANGED <<mapVars, boolVars, evolveVars, runVars>>

TryOnePointCrossover ==
    /\ op = "none"
    /\ \E parent1 \in AnyGenomes, parent2 \in AnyGenomes, raw \in RawValues :
            /\ op' = "one_point_crossover"
            /\ args' = [parent1 |-> parent1, parent2 |-> parent2]
            /\ draws' = <<raw>>
            /\ ret' = OnePointCrossoverCall(parent1, parent2, raw)
    /\ UNCHANGED <<mapVars, boolVars, evolveVars, runVars>>

TryMutate ==
    /\ op = "none"
    /\ \E g \in AnyGenomes, raw_index \in RawValues, raw_value \in RawValues :
            /\ op' = "mutate"
            /\ args' = [genome |-> g]
            /\ draws' = <<raw_index, raw_value>>
            /\ ret' = MutateCall(g, raw_index, raw_value)
    /\ UNCHANGED <<mapVars, boolVars, evolveVars, runVars>>

TryMapGenomeToPhenotype ==
    /\ op = "none"
    /\ \E g \in AnyGenomes :
            /\ op' = "map_genome_to_phenotype"
            /\ args' = [genome |-> g]
            /\ draws' = <<>>
            /\ ret' = MapGenomeCall(g)
    /\ UNCHANGED <<mapVars, boolVars, evolveVars, runVars>>

PreconditionNext ==
    \/ TryTournamentSelection
    \/ TryOnePointCrossover
    \/ TryMutate
    \/ TryMapGenomeToPhenotype

SpecPrecondition == PreconditionInit /\ [][PreconditionNext]_vars

\* C16: a call that breaks a precondition stops with a failure instead of
\* returning a result: tournament_selection on an empty population or with
\* tournament_size 0, and mutate, one_point_crossover and
\* map_genome_to_phenotype on an empty genome.
C16_PreconditionViolationsAreFatal ==
    /\ (op = "tournament_selection" /\ (args.population = <<>> \/ args.tournament_size = 0))
          => ret.tag = "Panic"
    /\ (op = "mutate" /\ args.genome = <<>>) => ret.tag = "Panic"
    /\ (op = "one_point_crossover" /\ (args.parent1 = <<>> \/ args.parent2 = <<>>))
          => ret.tag = "Panic"
    /\ (op = "map_genome_to_phenotype" /\ args.genome = <<>>) => ret.tag = "Panic"

-----------------------------------------------------------------------------
(* SpecGenome: a genome made by initialize_genome or taken from             *)
(* initialize_population, then changed by any sequence of extend_genome,    *)
(* truncate_genome, one_point_crossover and mutate calls. ret holds the     *)
(* genome, op the last call; a call that panics ends the sequence.          *)

MaxHeldLen == 3

MAX_GENOME_LENGTH == 100

\* rng.gen_range(lo..=hi)
GenRangeInclusive(raw, lo, hi) == lo + (raw % (hi - lo + 1))

\* (0..length).map(|_| rng.gen_range(0..=MAX_GENE_VALUE)).collect(), with
\* length = rng.gen_range(1..=MAX_GENOME_LENGTH)
initialize_genome(raw_length, raw_genes) ==
    [i \in 1..GenRangeInclusive(raw_length, 1, MAX_GENOME_LENGTH) |->
        GenRangeInclusive(raw_genes[i], 0, MAX_GENE_VALUE)]

\* for _ in 0..extension_length { genome.push(rng.gen_range(0..=MAX_GENE_VALUE)) }
extend_genome(g, extension_length, raw_genes) ==
    g \o [i \in 1..extension_length |-> GenRangeInclusive(raw_genes[i], 0, MAX_GENE_VALUE)]

\* Vec::pop: removes the last element, does nothing on an empty vector.
VecPop(g) == IF g = <<>> THEN g ELSE SubSeq(g, 1, Len(g) - 1)

\* for _ in 0..truncation_length { genome.pop(); }
RECURSIVE truncate_genome(_, _)
truncate_genome(g, truncation_length) ==
    IF truncation_length = 0 THEN g
    ELSE truncate_genome(VecPop(g), truncation_length - 1)

\* Values the random source gives for a gene; MUTATION_RANGE + 1 wraps to 1.
RawGenes == {0, MUTATION_RANGE + 1}

\* The genomes one initialize_genome call can give within the bound.
FreshGenomes ==
    {Evaluated(initialize_genome(raw_length, raw_genes)) :
        raw_length \in 0..(MaxHeldLen - 1), raw_genes \in [1..MaxHeldLen -> RawGenes]}

GenomeInit == OpInit

InitializeGenome ==
    /\ op = "none"
    /\ \E g \in FreshGenomes :
          /\ op' = "initialize_genome"
          /\ args' = <<>>
          /\ ret' = g
    /\ UNCHANGED draws
    /\ UNCHANGED <<mapVars, boolVars, evolveVars, runVars>>

\* One genome of initialize_population(size)
InitializePopulation ==
    /\ op = "none"
    /\ \E size \in 1..2, tape \in Tapes :
       \E i \in 1..size :
       \E made \in {initialize_population(size, [tape |-> tape, pos |-> 0]).population} :
          /\ Len(made[i]) <= MaxHeldLen
          /\ op' = "initialize_population"
          /\ args' = [size |-> size, individual |-> i - 1]
          /\ ret' = Evaluated(made[i])
    /\ UNCHANGED draws
    /\ UNCHANGED <<mapVars, boolVars, evolveVars, runVars>>

Held == op \notin {"none", "panicked"}

ExtendGenome ==
    /\ Held
    /\ \E extension_length \in 0..(MaxHeldLen - Len(ret)) :
       \E raw_genes \in [1..extension_length -> RawGenes] :
          /\ op' = "extend_genome"
          /\ args' = [extension_length |-> extension_length]
          /\ ret' = Evaluated(extend_genome(ret, extension_length, raw_genes))
    /\ UNCHANGED draws
    /\ UNCHANGED <<mapVars, boolVars, evolveVars, runVars>>

TruncateGenome ==
    /\ Held
    /\ \E truncation_length \in 0..(MaxHeldLen + 1) :
          /\ op' = "truncate_genome"
          /\ args' = [truncation_length |-> truncation_length]
          /\ ret' = truncate_genome(ret, truncation_length)
    /\ UNCHANGED draws
    /\ UNCHANGED <<mapVars, boolVars, evolveVars, runVars>>

\* The held genome is crossed with a fresh one, as either parent, and one of
\* the two children is kept.
CrossGenome ==
    /\ Held
    /\ \E partner \in FreshGenomes, held_first \in BOOLEAN, keep \in {"child1", "child2"},
          raw \in 0..(MaxHeldLen - 1) :
       \E called \in {IF held_first THEN OnePointCrossoverCall(ret, partner, raw)
                                    ELSE OnePointCrossoverCall(partner, ret, raw)} :
          /\ args' = [partner |-> partner, held_first |-> held_first, keep |-> keep]
          /\ IF called.tag = "Panic"
               THEN op' = "panicked" /\ ret' = ret
               ELSE /\ op' = "one_point_crossover"
                    /\ ret' = IF keep = "child1" THEN called.value.child1 ELSE called.value.child2
    /\ UNCHANGED draws
    /\ UNCHANGED <<mapVars, boolVars, evolveVars, runVars>>

MutateGenome ==
    /\ Held
    /\ \E raw_index \in 0..(MaxHeldLen - 1), raw_value \in RawGenes :
       \E called \in {MutateCall(ret, raw_index, raw_value)} :
          /\ args' = <<>>
          /\ IF called.tag = "Panic"
               THEN op' = "panicked" /\ ret' = ret
               ELSE op' = "mutate" /\ ret' = called.value
    /\ UNCHANGED draws
    /\ UNCHANGED <<mapVars, boolVars, evolveVars, runVars>>

GenomeNext ==
    \/ InitializeGenome
    \/ InitializePopulation
    \/ ExtendGenome
    \/ TruncateGenome
    \/ CrossGenome
    \/ MutateGenome

SpecGenome == GenomeInit /\ [][GenomeNext]_vars

\* C17: every genome reachable from initialize_genome or initialize_population
\* by extend_genome, truncate_genome, one_point_crossover and mutate calls,
\* with any extension and truncation lengths, has length >= 1.
C17_GenomeNeverEmpty == op # "none" => Len(ret) >= 1

-----------------------------------------------------------------------------
(* Claim on the phenotypes of the boolean grammar, under SpecMap *)

BooleanMappers == {m \in Mappers : GRAMMAR(m) = BOOL_GRAMMAR}

\* C19: every phenotype a complete derivation of the boolean grammar produces
\* is well-formed for the evaluator: under every assignment
\* evaluate_postfix(infix_to_postfix(tokens)) returns Some(value), so the
\* malformed-expression default is not taken.
C19_DerivedPhenotypeEvaluates ==
    (mpc = "done" /\ mapper \in BooleanMappers) =>
        \A a \in BOOLEAN, b \in BOOLEAN, c \in BOOLEAN :
            evaluate_postfix(infix_to_postfix(output), a, b, c).tag = "Some"

\* The derivation of the test genome has completed with "NOT NOT A AND B",
\* which evaluates to Some(true) when A and B are true.
C19_Witness ==
    /\ mpc = "done"
    /\ mapper = "parity"
    /\ genome = TestGenome
    /\ output = <<"NOT", "NOT", "A", "AND", "B">>
    /\ infix_to_postfix(output) = <<"A", "NOT", "NOT", "B", "AND">>
    /\ evaluate_postfix(infix_to_postfix(output), TRUE, TRUE, FALSE) = Some(TRUE)

====
